---- MODULE Spec2Model ----
(***************************************************************************)
(* A model of the GitHub PR review agent: the webhook intake and the      *)
(* polling manager (src/src/webhook_handler.py), the review pipeline      *)
(* (src/src/pr_reviewer.py), the GitHub collaborator it talks to          *)
(* (src/src/github_client.py), the configuration (src/src/config.py,      *)
(* src/src/routes/pr_routes.py) and the pending-edit store of the agent   *)
(* routes (src/src/routes/agent_routes.py).                               *)
(*                                                                         *)
(* Python values: None is the string "None"; a str is a TLA+ string; a    *)
(* dict is a record; an exception that leaves a function is a value of    *)
(* the set Raised.                                                        *)
(***************************************************************************)
EXTENDS Integers, Sequences, FiniteSets, TLC

VARIABLES
    webhook_secret, \* WebhookHandler.webhook_secret (Config.GITHUB_WEBHOOK_SECRET)
    gh,             \* the pull request as GitHub holds it
    thr,            \* one execution context per thread: request, pipeline locals
    triggers,       \* webhook requests received and review_recent_prs calls begun
    sigcall,        \* one call of verify_signature: its arguments and its result
    filtercall,     \* one call of _filter_reviewable_files: its argument and its result
    enable_polling, \* Config.ENABLE_POLLING
    monitored_repos,\* PollingManager.monitored_repos (a list)
    stop_polling,   \* PollingManager.stop_polling
    polling_thread, \* PollingManager.polling_thread: a worker, or NoThread
    jobs,           \* len(schedule.jobs): the scheduled calls of _poll_repositories
    workers,        \* the threads start_polling has created, each in _run_polling
    ctl,            \* the caller of start_polling / stop_polling_process
    ticks,          \* calls of _poll_repositories begun
    edits,          \* calls of add_repository and remove_repository made
    config,         \* Config as POST /config leaves it
    updates,        \* POST /config requests made
    valcall,        \* one call of Config.validate_config: the settings, the result
    pending_edits,  \* agent_routes.pending_edits (a dict, in insertion order)
    repo_files,     \* the repo.update_file calls made, in order
    push,           \* the request thread inside push_edits
    staged          \* the accept_edit requests made: the contents staged

\* The state of the polling manager and of the `schedule` module.
pollvars == <<enable_polling, monitored_repos, stop_polling, polling_thread,
              jobs, workers, ctl, ticks, edits>>

\* The configuration as POST /config leaves it, the call of validate_config,
\* and the pending-edit store of the agent routes.
restvars == <<config, updates, valcall, pending_edits, repo_files, push,
              staged>>

vars == <<webhook_secret, gh, thr, triggers, sigcall, filtercall, pollvars,
          restvars>>

\* ------------------------------------------------------------------ bounds

\* Webhook requests and calls of review_recent_prs the model starts, together.
MaxTriggers == 2

\* ------------------------------------------------------------------ values

None == "None"

\* Exceptions that are not GithubException.
TypeError == "TypeError"
AttributeError == "AttributeError"
UnicodeDecodeError == "UnicodeDecodeError"
ValueError == "ValueError"
AssertionError == "AssertionError"
GithubException == "GithubException"
\* What a provider's client raises when its call fails (an SDK or HTTP error).
ProviderError == "ProviderError"
Raised == {TypeError, AttributeError, UnicodeDecodeError, ValueError,
           AssertionError, GithubException, ProviderError}

\* What a call gives back: a value it returns, or an exception it raises.
Return(v) == [exc |-> None, val |-> v]
Raise(e) == [exc |-> e, val |-> FALSE]

\* Python truthiness of an Optional[str]: None and "" are falsy.
Truthy(s) == s # None /\ s # ""

\* `p in s` for two str.
Contains(p, s) ==
    \E i \in 1..(Len(s) - Len(p) + 1) : SubSeq(s, i, i + Len(p) - 1) = p

\* The position of x in the sequence s (x occurs in s).
IndexOf(s, x) == CHOOSE i \in 1..Len(s) : s[i] = x

\* ------------------------------------------------------ the webhook request

\* The repository and the pull request the model follows.
RepoName == "o/r"
PrNumber == 123
\* pr.get('number') of a payload without a pull request: Python's None, among
\* the integers.
NoNumber == 0

Actions == <<"opened", "reopened", "synchronize", "closed", "edited", None>>
BodyKinds == <<"notutf8", "badjson", "nonobject", "object">>
PrKeys == <<NoNumber, PrNumber>>
RepoKeys == <<None, RepoName>>

Range(s) == {s[i] : i \in 1..Len(s)}

\* A request body. kind says how far json.loads(payload_body.decode('utf-8'))
\* gets: bytes that are not UTF-8, text that is not JSON, a JSON value that is
\* not an object, or an object. For an object: payload['action'] (None: no such
\* key), payload['pull_request']['number'] (NoNumber: no 'pull_request' key) and
\* payload['repository']['full_name'] (None: no 'repository' key).
ObjectBodies ==
    [kind : {"object"}, action : Range(Actions),
     pr : Range(PrKeys), repo : Range(RepoKeys)]
OtherBodies ==
    [kind : {"notutf8", "badjson", "nonobject"}, action : {None},
     pr : {NoNumber}, repo : {None}]
Bodies == ObjectBodies \cup OtherBodies

\* No body (a thread at rest).
NoBody == [kind |-> None, action |-> None, pr |-> NoNumber, repo |-> None]

\* The bytes of a body, as a number: distinct bodies have distinct bytes.
BodyBytes(b) ==
    (IndexOf(BodyKinds, b.kind) - 1)
    + 4 * ((IndexOf(Actions, b.action) - 1)
    + 6 * ((IndexOf(PrKeys, b.pr) - 1)
    + 2 * (IndexOf(RepoKeys, b.repo) - 1)))

\* The secrets a handler may be configured with, and the keys a sender may sign with.
Secrets == <<"", "s3cr3t", "0ther">>

HexDigits == <<"0", "1", "2", "3", "4", "5", "6", "7",
               "8", "9", "a", "b", "c", "d", "e", "f">>

\* hexdigest(): n in 0..65535 as four lower-case hex digits.
Hex4(n) ==
    HexDigits[((n \div 4096) % 16) + 1] \o HexDigits[((n \div 256) % 16) + 1]
    \o HexDigits[((n \div 16) % 16) + 1] \o HexDigits[(n % 16) + 1]

\* hmac.new(key, msg, sha256).hexdigest(): a keyed digest of the message. The
\* model keeps what verification relies on: it is a function of key and message
\* and no two (key, message) pairs of the model share a digest (n |-> 7919 * n + 13
\* is a bijection modulo 65536).
HmacSha256Hex(key, msg) ==
    Hex4((7919 * (IndexOf(Secrets, key) * 128 + BodyBytes(msg)) + 13) % 65536)

\* The str characters hmac.compare_digest accepts in a str argument.
AsciiChars ==
    Range(HexDigits) \cup {"s", "h", "=", "x", "g", "z"}

IsAscii(s) == \A i \in 1..Len(s) : SubSeq(s, i, i) \in AsciiChars

\* hmac.compare_digest(a, b) on two str: equality, and TypeError when either
\* holds a non-ASCII character.
CompareDigest(a, b) ==
    IF IsAscii(a) /\ IsAscii(b) THEN Return(a = b) ELSE Raise(TypeError)

\* A verify_signature that tests the header before the secret.
verify_signature_header_first(secret, payload_body, signature_header) ==
    IF ~Truthy(signature_header) THEN Return(FALSE)
    ELSE IF ~Truthy(secret) THEN Return(TRUE)
    ELSE CompareDigest("sha256=" \o HmacSha256Hex(secret, payload_body),
                       signature_header)

\* WebhookHandler.verify_signature: what it returns, or the exception it raises.
verify_signature(secret, payload_body, signature_header) ==
    IF ~Truthy(secret) THEN Return(TRUE)
    ELSE IF ~Truthy(signature_header) THEN Return(FALSE)
    ELSE CompareDigest("sha256=" \o HmacSha256Hex(secret, payload_body),
                       signature_header)

\* What a sender can put in X-Hub-Signature-256 for body b when the handler's
\* secret is s: nothing, an empty value, the right signature, the signature of
\* another body or under another key, a wrong scheme, a digest with one digit
\* changed or cut short, and a value with a non-ASCII character.
Signed(key, b) == "sha256=" \o HmacSha256Hex(key, b)

FlipLast(h) ==
    SubSeq(h, 1, Len(h) - 1)
    \o (IF SubSeq(h, Len(h), Len(h)) = "0" THEN "1" ELSE "0")

Headers(b) ==
    {None, ""}
    \cup {Signed(Secrets[k], b) : k \in 2..Len(Secrets)}
    \cup {Signed(Secrets[k], [b EXCEPT !.kind = "badjson"]) : k \in 2..Len(Secrets)}
    \cup {"sha1=" \o HmacSha256Hex(Secrets[k], b) : k \in 2..Len(Secrets)}
    \cup {HmacSha256Hex(Secrets[k], b) : k \in 2..Len(Secrets)}
    \cup {FlipLast(Signed(Secrets[k], b)) : k \in 2..Len(Secrets)}
    \cup {SubSeq(Signed(Secrets[k], b), 1, 10) : k \in 2..Len(Secrets)}
    \cup {"sha256=zz", "sha256=é"}

\* ------------------------------------------------------------- GitHub side

\* The login of the token's user (self.github.get_user().login) and another user.
BotLogin == "pr-bot"
OtherLogin == "alice"

\* The substring check_pr_reviewed_by_bot looks for in a comment of the bot.
Marker == "AI Code Review"

\* A changed file as get_pr_files_and_diffs returns it.
File(name, status, patch) == [filename |-> name, status |-> status, patch |-> patch]

\* The changed files a pull request of the model may have.
FileLists ==
    { <<>>,
      <<File("a.py", "modified", "x")>>,
      <<File("package-lock.json", "modified", "y"), File("b.py", "removed", "z")>> }

\* Config.DEFAULT_AI_MODEL.
DefaultModel == "gemini"

\* The texts the AI model may answer with: one follows the format the prompt
\* asks for ("## AI Code Review" first), one does not.
Reviews == {"## AI Code Review\n### Summary\nLGTM", "Looks good to me."}

\* datetime.now().strftime("%Y-%m-%d %H:%M:%S UTC") at the time of the call.
Timestamps == {"2024-01-01 00:00:00 UTC"}

\* A comment on the pull request: its author and its body. `by` is history the
\* model keeps and GitHub does not: what triggered the run that posted it (a
\* webhook action, or "poll") and how many comments of the pipeline the pull
\* request had when that run began.
Comment(user, body, by) == [user |-> user, body |-> body, by |-> by]
NoRun == [trigger |-> None, seen |-> 0]

\* The comments of the pipeline among cs.
PipelinePosts(cs) == {i \in 1..Len(cs) : cs[i].by # NoRun}

\* ----------------------------------------------------------- GitHubClient

\* Whether a call names a repository and a pull request at all.
Missing(repo_name, pr_number) == repo_name = None \/ pr_number = NoNumber

\* get_pull_request(repo_name, pr_number): PyGithub refuses a repository name
\* or a number that is None before any request is sent (AssertionError, which
\* is no GithubException); `fails` says that the request fails upstream.
get_pull_request(repo_name, pr_number, fails) ==
    IF Missing(repo_name, pr_number) THEN Raise(AssertionError)
    ELSE IF fails THEN Raise(GithubException)
    ELSE Return(TRUE)

\* GitHubClient.check_pr_reviewed_by_bot.
check_pr_reviewed_by_bot(g, repo_name, pr_number, fails) ==
    LET pr == get_pull_request(repo_name, pr_number, fails) IN
    IF pr.exc = GithubException THEN Return(FALSE)
    ELSE IF pr.exc # None THEN pr
    ELSE Return(\/ \E i \in 1..Len(g.comments) :
                       /\ g.comments[i].user = BotLogin
                       /\ Contains(Marker, g.comments[i].body)
                \/ \E i \in 1..Len(g.reviews) : g.reviews[i] = BotLogin)

\* GitHubClient.get_pr_details: the pull request's data (its draft flag).
get_pr_details(g, repo_name, pr_number, fails) ==
    LET pr == get_pull_request(repo_name, pr_number, fails) IN
    IF pr.exc # None THEN pr ELSE Return(g.draft)

\* GitHubClient.get_pr_files_and_diffs.
get_pr_files_and_diffs(g, repo_name, pr_number, fails) ==
    LET pr == get_pull_request(repo_name, pr_number, fails) IN
    IF pr.exc # None THEN [exc |-> pr.exc, val |-> <<>>]
    ELSE Return(g.files)

\* A post_pr_comment that reports success also when GitHub refused.
post_pr_comment_reports_success(repo_name, pr_number, fails) ==
    LET pr == get_pull_request(repo_name, pr_number, fails) IN
    IF pr.exc = GithubException THEN Return(TRUE)
    ELSE IF pr.exc # None THEN pr
    ELSE Return(TRUE)

\* GitHubClient.post_pr_comment: whether the comment was created.
post_pr_comment(repo_name, pr_number, fails) ==
    LET pr == get_pull_request(repo_name, pr_number, fails) IN
    IF pr.exc = GithubException THEN Return(FALSE)
    ELSE IF pr.exc # None THEN pr
    ELSE Return(TRUE)

\* -------------------------------------------------------------- PRReviewer

reviewable_extensions ==
    {".py", ".js", ".ts", ".jsx", ".tsx", ".java", ".cpp", ".c", ".h",
     ".cs", ".php", ".rb", ".go", ".rs", ".swift", ".kt", ".scala",
     ".sql", ".html", ".css", ".scss", ".less", ".vue", ".svelte"}

skip_patterns ==
    {"package-lock.json", "yarn.lock", "Pipfile.lock", "poetry.lock",
     ".min.js", ".min.css", "bundle.js", "dist/", "build/", "node_modules/",
     ".git/", "__pycache__/", ".pyc", ".class", ".jar", ".war"}

script_indicators == {"#!/", "import ", "from ", "function ", "class "}

UpperCase == <<"A", "B", "C", "D", "E", "F", "G", "H", "I", "J", "K", "L", "M",
               "N", "O", "P", "Q", "R", "S", "T", "U", "V", "W", "X", "Y", "Z">>
LowerCase == <<"a", "b", "c", "d", "e", "f", "g", "h", "i", "j", "k", "l", "m",
               "n", "o", "p", "q", "r", "s", "t", "u", "v", "w", "x", "y", "z">>

LowerChar(c) ==
    IF c \in Range(UpperCase) THEN LowerCase[IndexOf(UpperCase, c)] ELSE c

\* str.lower().
RECURSIVE Lower(_)
Lower(s) ==
    IF Len(s) = 0 THEN ""
    ELSE LowerChar(SubSeq(s, 1, 1)) \o Lower(SubSeq(s, 2, Len(s)))

\* s.split(ch)[-1]: what follows the last ch in s, all of s when it has none.
SplitLast(s, ch) ==
    LET at == {i \in 1..Len(s) : SubSeq(s, i, i) = ch} IN
    IF at = {} THEN s
    ELSE SubSeq(s, (CHOOSE i \in at : \A j \in at : j <= i) + 1, Len(s))

\* A loop body without the test for removed files.
Reviewable_keeps_removed(file_data) ==
    LET filename == file_data.filename
        file_ext == IF Contains(".", filename)
                    THEN "." \o SplitLast(filename, ".") ELSE ""
    IN  /\ file_data.patch # ""
        /\ ~\E pattern \in skip_patterns : Contains(pattern, filename)
        /\ \/ Lower(file_ext) \in reviewable_extensions
           \/ /\ ~Contains(".", SplitLast(filename, "/"))
              /\ \E indicator \in script_indicators :
                     Contains(indicator, file_data.patch)

\* Whether the loop body of _filter_reviewable_files appends file_data.
Reviewable(file_data) ==
    LET filename == file_data.filename
        file_ext == IF Contains(".", filename)
                    THEN "." \o SplitLast(filename, ".") ELSE ""
    IN  /\ file_data.status # "removed"
        /\ file_data.patch # ""
        /\ ~\E pattern \in skip_patterns : Contains(pattern, filename)
        /\ \/ Lower(file_ext) \in reviewable_extensions
           \/ /\ ~Contains(".", SplitLast(filename, "/"))
              /\ \E indicator \in script_indicators :
                     Contains(indicator, file_data.patch)

\* PRReviewer._filter_reviewable_files.
RECURSIVE _filter_reviewable_files(_)
_filter_reviewable_files(files_data) ==
    IF files_data = <<>> THEN <<>>
    ELSE (IF Reviewable(Head(files_data)) THEN <<Head(files_data)>> ELSE <<>>)
         \o _filter_reviewable_files(Tail(files_data))

\* An _add_review_metadata that always names the default model.
_add_review_metadata_default_model(review_content, model_name, timestamp) ==
    "\n---\n*This review was generated by AI using the " \o DefaultModel
    \o " model on " \o timestamp \o "*\n"
    \o "*This is an automated code review. Please use your judgment "
    \o "and consider the suggestions carefully.*\n\n"
    \o review_content

\* An _add_review_metadata that returns the metadata alone.
_add_review_metadata_alone(review_content, model_name, timestamp) ==
    "\n---\n*This review was generated by AI using the "
    \o (IF Truthy(model_name) THEN model_name ELSE DefaultModel)
    \o " model on " \o timestamp \o "*\n"
    \o "*This is an automated code review. Please use your judgment "
    \o "and consider the suggestions carefully.*\n\n"

\* PRReviewer._add_review_metadata. (The text of the source has a robot emoji
\* after the first asterisk; TLA+ strings cannot hold it.)
_add_review_metadata(review_content, model_name, timestamp) ==
    LET model_used == IF Truthy(model_name) THEN model_name ELSE DefaultModel
        metadata ==
            "\n---\n*This review was generated by AI using the " \o model_used
            \o " model on " \o timestamp \o "*\n"
            \o "*This is an automated code review. Please use your judgment "
            \o "and consider the suggestions carefully.*\n\n"
    IN  metadata \o review_content

\* The dict review_pull_request returns. An absent key reads as .get() reads
\* it: skipped FALSE, review_content and error None, files_reviewed 0.
Skipped(message) ==
    [success |-> TRUE, skipped |-> TRUE, message |-> message,
     review_content |-> None, files_reviewed |-> 0, error |-> None]
Posted(review_content, n) ==
    [success |-> TRUE, skipped |-> FALSE, message |-> "Review posted successfully",
     review_content |-> review_content, files_reviewed |-> n, error |-> None]
PostFailed ==
    [success |-> FALSE, skipped |-> FALSE, message |-> "Failed to post review",
     review_content |-> None, files_reviewed |-> 0, error |-> "GitHub API error"]
\* A failed outcome that keeps `success` at True.
Failed_with_success(e) ==
    [success |-> TRUE, skipped |-> FALSE, message |-> "Review failed: " \o e,
     review_content |-> None, files_reviewed |-> 0, error |-> e]
\* The dict of the `except Exception` branch.
Failed(e) ==
    [success |-> FALSE, skipped |-> FALSE, message |-> "Review failed: " \o e,
     review_content |-> None, files_reviewed |-> 0, error |-> e]
NoOutcome ==
    [success |-> FALSE, skipped |-> FALSE, message |-> None,
     review_content |-> None, files_reviewed |-> 0, error |-> None]

\* ------------------------------------------------------- execution contexts

\* The request-handling thread of the web server and the polling thread.
Threads == {"web", "poll"}

\* How many times a run has called each collaborator.
ZeroCalls == [check |-> 0, details |-> 0, files |-> 0, generate |-> 0, post |-> 0]

\* A thread at rest. A busy thread holds: the request (sig, body, event) and what
\* handle_webhook did with it (verified, parsed, invoked: calls of
\* review_pull_request); the response (status, message, error, action,
\* outcome); the arguments and locals of the running review_pull_request
\* (repo_name .. review_content); and, for the polling thread, the pull
\* requests review_recent_prs still has to review and its results so far.
\* calls, order (the collaborator calls of the run, in the order they were
\* made), created (comments the run created on GitHub), seen (comments of the
\* pipeline on the pull request when the run began), faulted (a collaborator
\* call of the run failed upstream) and failures (which ones) are history.
IdleThread ==
    [kind |-> "idle", pc |-> "idle",
     sig |-> None, body |-> NoBody, event |-> None,
     verified |-> Return(FALSE), parsed |-> FALSE, invoked |-> 0,
     status |-> 0, message |-> None, error |-> None, action |-> None,
     outcome |-> NoOutcome,
     repo_name |-> None, pr_number |-> NoNumber, force_review |-> FALSE,
     model_name |-> None, draft |-> FALSE, reviewable |-> <<>>,
     review_content |-> None,
     calls |-> ZeroCalls, order |-> <<>>, created |-> 0,
     seen |-> 0, faulted |-> FALSE, failures |-> {},
     queue |-> <<>>, results |-> <<>>]

NumStr(n) == IF n = NoNumber THEN "None" ELSE ToString(n)

\* What triggered the run a thread is in.
Trigger(c) == IF c.kind = "webhook" THEN c.body.action ELSE c.kind

\* A review_pull_request without the already-reviewed check.
StartRun_skips_check(c, g, repo_name, pr_number, force_review) ==
    [c EXCEPT !.pc = "details",
              !.repo_name = repo_name, !.pr_number = pr_number,
              !.force_review = force_review, !.model_name = None,
              !.draft = FALSE, !.reviewable = <<>>, !.review_content = None,
              !.invoked = @ + 1, !.calls = ZeroCalls, !.order = <<>>,
              !.created = 0, !.faulted = FALSE, !.failures = {},
              !.outcome = NoOutcome,
              !.seen = IF Missing(repo_name, pr_number) THEN 0
                       ELSE Cardinality(PipelinePosts(g.comments))]

\* A review_pull_request that makes the already-reviewed check under force too.
StartRun_always_checks(c, g, repo_name, pr_number, force_review) ==
    [c EXCEPT !.pc = "check",
              !.repo_name = repo_name, !.pr_number = pr_number,
              !.force_review = force_review, !.model_name = None,
              !.draft = FALSE, !.reviewable = <<>>, !.review_content = None,
              !.invoked = @ + 1, !.calls = ZeroCalls, !.order = <<>>,
              !.created = 0, !.faulted = FALSE, !.failures = {},
              !.outcome = NoOutcome,
              !.seen = IF Missing(repo_name, pr_number) THEN 0
                       ELSE Cardinality(PipelinePosts(g.comments))]

\* review_pull_request(repo_name, pr_number, model_name, force_review) is
\* entered: `if not force_review and ...` goes to the already-reviewed check
\* only without force.
StartRun(c, g, repo_name, pr_number, force_review) ==
    [c EXCEPT !.pc = IF force_review THEN "details" ELSE "check",
              !.repo_name = repo_name, !.pr_number = pr_number,
              !.force_review = force_review, !.model_name = None,
              !.draft = FALSE, !.reviewable = <<>>, !.review_content = None,
              !.invoked = @ + 1, !.calls = ZeroCalls, !.order = <<>>,
              !.created = 0, !.faulted = FALSE, !.failures = {},
              !.outcome = NoOutcome,
              !.seen = IF Missing(repo_name, pr_number) THEN 0
                       ELSE Cardinality(PipelinePosts(g.comments))]

\* review_pull_request returns `outcome` to its caller. The webhook handler
\* answers {'message': 'PR #n processed', 'action': action, 'result':
\* outcome}; the /review route answers the outcome itself; review_recent_prs
\* appends the outcome to its results and goes on with the next pull request
\* of its list.
EndRun(c, g, outcome) ==
    IF c.kind = "webhook"
    THEN [c EXCEPT !.pc = "done", !.outcome = outcome, !.status = 200,
                   !.message = "PR #" \o NumStr(c.pr_number) \o " processed",
                   !.action = c.body.action]
    ELSE IF c.kind = "manual"
    THEN [c EXCEPT !.pc = "done", !.outcome = outcome, !.status = 200]
    ELSE LET d == [c EXCEPT !.outcome = outcome,
                            !.results = Append(@, [pr_number |-> c.pr_number,
                                                   result |-> outcome]),
                            !.queue = Tail(@)]
         IN  IF d.queue = <<>> THEN [d EXCEPT !.pc = "done"]
             ELSE StartRun(d, g, d.repo_name, Head(d.queue), FALSE)

\* --------------------------------------------------------- WebhookHandler

EventTypes == {"pull_request", "pull_request_review", "ping", "push", None}

\* A dispatch that sends review events to the pull request handler as well.
Route_reviews_too(event_type) ==
    IF event_type \in {"pull_request", "pull_request_review"} THEN "pull_request"
    ELSE IF event_type = "ping" THEN "ping"
    ELSE "ignored"

\* handle_webhook's dispatch on X-GitHub-Event.
Route(event_type) ==
    IF event_type = "pull_request" THEN "pull_request"
    ELSE IF event_type = "pull_request_review" THEN "pull_request_review"
    ELSE IF event_type = "ping" THEN "ping"
    ELSE "ignored"

\* A handler that reviews on every action but `closed`.
ShouldReview_unless_closed(action) == action # "closed"

\* _handle_pull_request_event: `action in ['opened', 'reopened', 'synchronize']`.
ShouldReview(action) == action \in {"opened", "reopened", "synchronize"}

\* A handler that forces the review on every action.
ForceReview_always(action) == TRUE

\* _handle_pull_request_event: force_review=(action == 'synchronize').
ForceReview(action) == action = "synchronize"

\* A response of handle_webhook that ends the request.
Respond(status, message, error) ==
    [call |-> FALSE, status |-> status, message |-> message, error |-> error]
\* handle_webhook goes on to call review_pull_request.
CallPipeline == [call |-> TRUE, status |-> 0, message |-> None, error |-> None]

\* _handle_pull_request_event up to its call of review_pull_request; reading a
\* key of a payload that is no object raises AttributeError.
_handle_pull_request_event(payload) ==
    IF payload.kind # "object" THEN Respond(500, None, AttributeError)
    ELSE IF ShouldReview(payload.action) THEN CallPipeline
    ELSE Respond(200, "PR action " \o payload.action \o " ignored", None)

\* _handle_pull_request_review_event.
_handle_pull_request_review_event(payload) ==
    IF payload.kind # "object" THEN Respond(500, None, AttributeError)
    ELSE Respond(200, "PR review action " \o payload.action \o " received", None)

\* handle_webhook after the signature step: json.loads and the dispatch.
ParseAndDispatch(payload_body, event_type) ==
    IF payload_body.kind = "notutf8" THEN Respond(500, None, UnicodeDecodeError)
    ELSE IF payload_body.kind = "badjson" THEN Respond(400, None, "Invalid JSON")
    ELSE IF Route(event_type) = "pull_request"
         THEN _handle_pull_request_event(payload_body)
    ELSE IF Route(event_type) = "pull_request_review"
         THEN _handle_pull_request_review_event(payload_body)
    ELSE IF Route(event_type) = "ping"
         THEN Respond(200, "Webhook received successfully", None)
    ELSE Respond(200, "Event type " \o event_type \o " ignored", None)

\* handle_webhook up to its first collaborator call. An exception of the
\* signature step is caught by the outer handler and answered 500.
handle_webhook(secret, signature, payload_body, event_type) ==
    LET v == verify_signature(secret, payload_body, signature) IN
    IF v.exc # None THEN Respond(500, None, v.exc)
    ELSE IF ~v.val THEN Respond(401, None, "Invalid signature")
    ELSE ParseAndDispatch(payload_body, event_type)

\* A webhook request arrives on thread t with signature header h, body b and
\* event type e, and is handled up to the response or to the first
\* collaborator call of the pipeline.
Deliver(t, h, b, e) ==
    /\ t = "web"
    /\ thr[t].pc = "idle"
    /\ triggers < MaxTriggers
    /\ triggers' = triggers + 1
    /\ LET v == verify_signature(webhook_secret, b, h)
           r == handle_webhook(webhook_secret, h, b, e)
           c == [IdleThread EXCEPT !.kind = "webhook", !.sig = h, !.body = b,
                                   !.event = e, !.verified = v,
                                   !.parsed = (v.exc = None /\ v.val)]
       IN  thr' = [thr EXCEPT ![t] =
                IF r.call
                THEN StartRun(c, gh, b.repo, b.pr, ForceReview(b.action))
                ELSE [c EXCEPT !.pc = "done", !.status = r.status,
                               !.message = r.message, !.error = r.error]]
    /\ UNCHANGED <<webhook_secret, gh, sigcall, filtercall, pollvars, restvars>>

\* ---------------------------------------------------- review_pull_request

Bump(calls, op) == [calls EXCEPT ![op] = @ + 1]

\* `self.github_client.check_pr_reviewed_by_bot(repo_name, pr_number)`.
StepCheck(t) ==
    /\ thr[t].pc = "check"
    /\ \E fails \in BOOLEAN :
        LET c == [thr[t] EXCEPT !.calls = Bump(@, "check"),
                                !.order = Append(@, "check"),
                                !.faulted = @ \/ fails,
                                !.failures = IF fails THEN @ \cup {"check"} ELSE @]
            r == check_pr_reviewed_by_bot(gh, c.repo_name, c.pr_number, fails)
        IN  thr' = [thr EXCEPT ![t] =
                IF r.exc # None THEN EndRun(c, gh, Failed(r.exc))
                ELSE IF r.val THEN EndRun(c, gh, Skipped("PR already reviewed"))
                ELSE [c EXCEPT !.pc = "details"]]
    /\ UNCHANGED <<webhook_secret, gh, triggers, sigcall, filtercall, pollvars, restvars>>

\* A review_pull_request that tests the draft flag only after it has fetched
\* the changed files.
StepDetails_draft_test_late(t) ==
    /\ thr[t].pc = "details"
    /\ \E fails \in BOOLEAN :
        LET c == [thr[t] EXCEPT !.calls = Bump(Bump(@, "details"), "files"),
                                !.order = @ \o <<"details", "files">>,
                                !.faulted = @ \/ fails,
                                !.failures = IF fails THEN @ \cup {"details"} ELSE @]
            r == get_pr_details(gh, c.repo_name, c.pr_number, fails)
        IN  thr' = [thr EXCEPT ![t] =
                IF r.exc # None THEN EndRun(c, gh, Failed(r.exc))
                ELSE IF r.val /\ ~c.force_review
                     THEN EndRun([c EXCEPT !.draft = r.val], gh,
                                 Skipped("Skipped draft PR"))
                ELSE [c EXCEPT !.pc = "files", !.draft = r.val]]
    /\ UNCHANGED <<webhook_secret, gh, triggers, sigcall, filtercall, pollvars, restvars>>

\* `pr_data = self.github_client.get_pr_details(...)` and the draft test.
StepDetails(t) ==
    /\ thr[t].pc = "details"
    /\ \E fails \in BOOLEAN :
        LET c == [thr[t] EXCEPT !.calls = Bump(@, "details"),
                                !.order = Append(@, "details"),
                                !.faulted = @ \/ fails,
                                !.failures = IF fails THEN @ \cup {"details"} ELSE @]
            r == get_pr_details(gh, c.repo_name, c.pr_number, fails)
        IN  thr' = [thr EXCEPT ![t] =
                IF r.exc # None THEN EndRun(c, gh, Failed(r.exc))
                ELSE IF r.val /\ ~c.force_review
                     THEN EndRun([c EXCEPT !.draft = r.val], gh,
                                 Skipped("Skipped draft PR"))
                ELSE [c EXCEPT !.pc = "files", !.draft = r.val]]
    /\ UNCHANGED <<webhook_secret, gh, triggers, sigcall, filtercall, pollvars, restvars>>

\* A review_pull_request without the test for no reviewable file.
StepFiles_no_empty_test(t) ==
    /\ thr[t].pc = "files"
    /\ \E fails \in BOOLEAN :
        LET c == [thr[t] EXCEPT !.calls = Bump(@, "files"),
                                !.order = Append(@, "files"),
                                !.faulted = @ \/ fails,
                                !.failures = IF fails THEN @ \cup {"files"} ELSE @]
            r == get_pr_files_and_diffs(gh, c.repo_name, c.pr_number, fails)
            reviewable_files == _filter_reviewable_files(r.val)
        IN  thr' = [thr EXCEPT ![t] =
                IF r.exc # None THEN EndRun(c, gh, Failed(r.exc))
                ELSE [c EXCEPT !.pc = "generate",
                               !.reviewable = reviewable_files]]
    /\ UNCHANGED <<webhook_secret, gh, triggers, sigcall, filtercall, pollvars, restvars>>

\* A review_pull_request that fetches the files again when the fetch failed.
StepFiles_retries(t) ==
    /\ thr[t].pc = "files"
    /\ \E fails \in BOOLEAN :
        LET c == [thr[t] EXCEPT !.calls = Bump(@, "files"),
                                !.order = Append(@, "files"),
                                !.faulted = @ \/ fails,
                                !.failures = IF fails THEN @ \cup {"files"} ELSE @]
            r == get_pr_files_and_diffs(gh, c.repo_name, c.pr_number, fails)
            reviewable_files == _filter_reviewable_files(r.val)
        IN  thr' = [thr EXCEPT ![t] =
                IF r.exc # None THEN c
                ELSE IF reviewable_files = <<>>
                     THEN EndRun(c, gh, Skipped("No reviewable files found"))
                ELSE [c EXCEPT !.pc = "generate",
                               !.reviewable = reviewable_files]]
    /\ UNCHANGED <<webhook_secret, gh, triggers, sigcall, filtercall, pollvars, restvars>>

\* `files_data = self.github_client.get_pr_files_and_diffs(...)`, the filter
\* and the test for no reviewable file.
StepFiles(t) ==
    /\ thr[t].pc = "files"
    /\ \E fails \in BOOLEAN :
        LET c == [thr[t] EXCEPT !.calls = Bump(@, "files"),
                                !.order = Append(@, "files"),
                                !.faulted = @ \/ fails,
                                !.failures = IF fails THEN @ \cup {"files"} ELSE @]
            r == get_pr_files_and_diffs(gh, c.repo_name, c.pr_number, fails)
            reviewable_files == _filter_reviewable_files(r.val)
        IN  thr' = [thr EXCEPT ![t] =
                IF r.exc # None THEN EndRun(c, gh, Failed(r.exc))
                ELSE IF reviewable_files = <<>>
                     THEN EndRun(c, gh, Skipped("No reviewable files found"))
                ELSE [c EXCEPT !.pc = "generate",
                               !.reviewable = reviewable_files]]
    /\ UNCHANGED <<webhook_secret, gh, triggers, sigcall, filtercall, pollvars, restvars>>

\* The names AIModelManager may hold a client for (_initialize_clients).
Clients == {"gemini", "perplexity"}

\* A get_client that falls back to a registered client for an unknown name.
get_client_falls_back(model_name) == Return(TRUE)

\* AIModelManager.get_client: ValueError for a name no client is registered
\* under; a registered client may still not be configured or not available.
get_client(model_name) ==
    LET name == IF Truthy(model_name) THEN model_name ELSE DefaultModel IN
    IF name \notin Clients THEN Raise(ValueError) ELSE Return(TRUE)

\* AIModelManager.generate_review: get_client (ValueError for an unknown name,
\* and for a client that is not registered or says it is not available), then
\* the client's generate_review: the provider's answer, or the exception of
\* the failed call (answer None).
generate_review(model_name, available, answer) ==
    IF get_client(model_name).exc # None
    THEN [exc |-> get_client(model_name).exc, val |-> None]
    ELSE IF ~available THEN [exc |-> ValueError, val |-> None]
    ELSE IF answer = None THEN [exc |-> ProviderError, val |-> None]
    ELSE Return(answer)

\* `review_content = self.ai_manager.generate_review(...)`: a text of the
\* model, or an exception (no such client, client not available, the
\* provider's call failed).
StepGenerate(t) ==
    /\ thr[t].pc = "generate"
    /\ \E available \in BOOLEAN : \E answer \in Reviews \cup {None} :
        LET r == generate_review(thr[t].model_name, available, answer)
            failed == r.exc # None
            c == [thr[t] EXCEPT !.calls = Bump(@, "generate"),
                                !.order = Append(@, "generate"),
                                !.faulted = @ \/ failed,
                                !.failures = IF failed THEN @ \cup {"generate"}
                                             ELSE @]
        IN  thr' = [thr EXCEPT ![t] =
                IF failed THEN EndRun(c, gh, Failed(r.exc))
                ELSE [c EXCEPT !.pc = "post", !.review_content = r.val]]
    /\ UNCHANGED <<webhook_secret, gh, triggers, sigcall, filtercall, pollvars, restvars>>

\* _add_review_metadata, `self.github_client.post_pr_comment(...)` and the
\* return of the outcome.
StepPost(t) ==
    /\ thr[t].pc = "post"
    /\ \E fails \in BOOLEAN : \E timestamp \in Timestamps :
        LET review_with_metadata ==
                _add_review_metadata(thr[t].review_content, thr[t].model_name,
                                     timestamp)
            r == post_pr_comment(thr[t].repo_name, thr[t].pr_number, fails)
            \* pr.create_issue_comment went through at GitHub
            went == get_pull_request(thr[t].repo_name, thr[t].pr_number,
                                     fails).exc = None
            c == [thr[t] EXCEPT !.calls = Bump(@, "post"),
                                !.order = Append(@, "post"),
                                !.created = IF went THEN @ + 1 ELSE @,
                                !.faulted = @ \/ fails,
                                !.failures = IF fails THEN @ \cup {"post"} ELSE @]
            g == IF went
                 THEN [gh EXCEPT !.comments =
                        Append(@, Comment(BotLogin, review_with_metadata,
                                          [trigger |-> Trigger(c),
                                           seen |-> c.seen]))]
                 ELSE gh
        IN  /\ gh' = g
            /\ thr' = [thr EXCEPT ![t] =
                    IF r.exc # None THEN EndRun(c, g, Failed(r.exc))
                    ELSE IF r.val
                         THEN EndRun(c, g, Posted(c.review_content,
                                                  Len(c.reviewable)))
                    ELSE EndRun(c, g, PostFailed)]
    /\ UNCHANGED <<webhook_secret, triggers, sigcall, filtercall, pollvars, restvars>>

\* The response is sent (the webhook), or review_recent_prs returns (polling).
Finish(t) ==
    /\ thr[t].pc = "done"
    /\ thr' = [thr EXCEPT ![t] = IdleThread]
    /\ UNCHANGED <<webhook_secret, gh, triggers, sigcall, filtercall, pollvars, restvars>>

\* ------------------------------------------------------ review_recent_prs

\* The limit _poll_repositories passes to review_recent_prs.
PollLimit == 3

\* A get_recent_prs that returns the whole listing.
get_recent_prs_uncut(g, limit, fails) ==
    IF fails THEN [exc |-> GithubException, val |-> <<>>]
    ELSE Return(g.open)

\* GitHubClient.get_recent_prs: the open pull requests, most recently updated
\* first, cut to `limit`.
get_recent_prs(g, limit, fails) ==
    IF fails THEN [exc |-> GithubException, val |-> <<>>]
    ELSE Return(SubSeq(g.open, 1, IF Len(g.open) < limit THEN Len(g.open) ELSE limit))

\* The polling thread calls review_recent_prs(repo_name, limit=3): the listing,
\* then review_pull_request(repo_name, number, model_name=None) for the first
\* pull request of the list.
PollStart(t) ==
    /\ t = "poll"
    /\ thr[t].pc = "idle"
    /\ triggers < MaxTriggers
    /\ triggers' = triggers + 1
    /\ \E fails \in BOOLEAN :
        LET r == get_recent_prs(gh, PollLimit, fails)
            c == [IdleThread EXCEPT !.kind = "poll", !.repo_name = RepoName,
                                    !.queue = r.val]
        IN  thr' = [thr EXCEPT ![t] =
                IF r.exc # None
                THEN [c EXCEPT !.pc = "done",
                               !.results = <<[pr_number |-> NoNumber,
                                              result |-> Failed(r.exc)]>>]
                ELSE IF r.val = <<>> THEN [c EXCEPT !.pc = "done"]
                ELSE StartRun(c, gh, RepoName, Head(r.val), FALSE)]
    /\ UNCHANGED <<webhook_secret, gh, sigcall, filtercall, pollvars, restvars>>

\* ------------------------------------------------------------ the system

\* The pull request at the start: draft or not, its changed files, and what
\* others left on it: nothing, a comment of another user that holds the
\* marker, or a review the bot's user submitted.
InitialPulls ==
    { [draft |-> d, files |-> f, open |-> <<PrNumber>>,
       comments |-> cs, reviews |-> rs] :
        d \in BOOLEAN, f \in FileLists,
        cs \in {<<>>, <<Comment(OtherLogin, "an " \o Marker \o " please", NoRun)>>},
        rs \in {<<>>, <<BotLogin>>} }

\* The webhook requests of the pipeline's specification: pull request events
\* that pass the signature step and carry an action that starts a review.
Signature(secret, b) == IF Truthy(secret) THEN Signed(secret, b) ELSE None

ReviewBodies == {b \in ObjectBodies : ShouldReview(b.action)}

NoCall == [called |-> FALSE, secret |-> None, body |-> NoBody, header |-> None,
           result |-> Return(FALSE)]

\* No call of _filter_reviewable_files yet.
NoFilterCall == [called |-> FALSE, files_data |-> <<>>, result |-> <<>>]

\* ------------------------------------------------- the polling manager

\* The most threads start_polling creates, calls of _poll_repositories that
\* begin, and calls of add_repository and remove_repository the model makes.
MaxStarts == 2
MaxTicks == 2
MaxEdits == 1

\* polling_thread = None.
NoThread == 0

\* The threads start_polling may create, in the order it creates them.
WorkerIds == 1..MaxStarts

\* A thread that does not exist yet. A thread in _run_polling holds its place
\* (pc), the due jobs run_pending still has to run (todo) and has run (fired),
\* and, inside _poll_repositories, the position of the for loop's iterator in
\* monitored_repos (idx) and the repository in hand (repo). History:
\* snapshot (monitored_repos when the call began), polled (the repositories
\* it has polled), failed (which of these polls was the first to fail or
\* raise, 0 for none), edited (monitored_repos was changed during the call),
\* dropped (the repositories removed from it during the call), ended (why
\* the for loop was left), caught (_run_polling has caught an exception) and
\* exit (why the thread ended).
Unborn ==
    [pc |-> "unborn", todo |-> 0, fired |-> 0, idx |-> 0, repo |-> None,
     snapshot |-> <<>>, polled |-> <<>>, failed |-> 0, edited |-> FALSE,
     dropped |-> {}, ended |-> None, caught |-> FALSE, exit |-> None]

\* The caller of the polling routes at rest: `last` is the last call made
\* (history), timed_out whether the join of the last stop timed out.
IdleCtl == [pc |-> "idle", last |-> None, timed_out |-> FALSE]

\* A polling manager that is never used: polling disabled, no repository.
NoPolling ==
    /\ enable_polling = FALSE
    /\ monitored_repos = <<>>
    /\ stop_polling = FALSE
    /\ polling_thread = NoThread
    /\ jobs = 0
    /\ workers = [w \in WorkerIds |-> Unborn]
    /\ ctl = IdleCtl
    /\ ticks = 0
    /\ edits = 0

\* Config at start. Config.MONITORED_REPOS is the list the polling manager
\* holds (`self.monitored_repos = Config.MONITORED_REPOS`: same_list, with
\* the field monitored_repos unused) until POST /config binds the name to
\* another list; Config.DEFAULT_AI_MODEL is DefaultModel; status is the
\* status of the last POST /config response. (Config.ENABLE_POLLING is the
\* variable enable_polling.)
StartConfig ==
    [same_list |-> TRUE, monitored_repos |-> <<>>,
     default_model |-> DefaultModel, status |-> 0]

\* validate_config not called yet.
NoValCall == [called |-> FALSE, settings |-> <<>>, result |-> <<>>]

\* No request inside push_edits; configured: the module has its `repo`
\* (GITHUB_TOKEN and GITHUB_REPO_NAME are set). A request inside push_edits
\* holds its place (pc), the position of the iterator of
\* pending_edits.items() and the size of the dict when the iterator was made
\* (it, size), the item in hand (path, new_content), the results list, and
\* its response (status). History: took (pending_edits when the request came
\* in), wrote (the update_file calls of the request), raced (an accept_edit
\* came in during the request), pushes (the requests made).
IdlePush ==
    [configured |-> TRUE, pc |-> "idle", it |-> 0, size |-> 0,
     path |-> None, new_content |-> None, results |-> <<>>, status |-> 0,
     took |-> <<>>, wrote |-> <<>>, raced |-> FALSE, pushes |-> 0]

\* Nothing of POST /config, validate_config and the agent routes.
NoRest ==
    /\ config = StartConfig
    /\ updates = 0
    /\ valcall = NoValCall
    /\ pending_edits = <<>>
    /\ repo_files = <<>>
    /\ push = IdlePush
    /\ staged = <<>>

Init ==
    /\ webhook_secret \in {None, Secrets[2]}
    /\ gh \in InitialPulls
    /\ thr = [t \in Threads |-> IdleThread]
    /\ triggers = 0
    /\ sigcall = NoCall
    /\ filtercall = NoFilterCall
    /\ NoPolling
    /\ NoRest

DeliverReview ==
    \E b \in ReviewBodies :
        Deliver("web", Signature(webhook_secret, b), b, "pull_request")

Next ==
    \/ DeliverReview
    \/ PollStart("poll")
    \/ \E t \in Threads : StepCheck(t)
    \/ \E t \in Threads : StepDetails(t)
    \/ \E t \in Threads : StepFiles(t)
    \/ \E t \in Threads : StepGenerate(t)
    \/ \E t \in Threads : StepPost(t)
    \/ \E t \in Threads : Finish(t)

Spec == Init /\ [][Next]_vars

\* ------------------------------------------------- the webhook endpoint

\* The web server alone, under every request of the model: any signature
\* header, any body, any event type, with or without a configured secret. The
\* pull request is an open one with one reviewable file, draft or not.
WebInit ==
    /\ webhook_secret \in {None, Secrets[1], Secrets[2]}
    /\ gh \in {g \in InitialPulls :
                 /\ g.files = <<File("a.py", "modified", "x")>>
                 /\ g.comments = <<>> /\ g.reviews = <<>>}
    /\ thr = [t \in Threads |-> IdleThread]
    /\ triggers = 0
    /\ sigcall = NoCall
    /\ filtercall = NoFilterCall
    /\ NoPolling
    /\ NoRest

\* The signature headers of the endpoint's specification: none, an empty one,
\* the right one, one signed with another key, one with a digit changed, one
\* with a non-ASCII character.
WireHeaders(b) ==
    {None, "", Signed(Secrets[2], b), Signed(Secrets[3], b),
     FlipLast(Signed(Secrets[2], b)), "sha256=é"}

DeliverAny ==
    \E b \in Bodies : \E h \in WireHeaders(b) : \E e \in EventTypes :
        Deliver("web", h, b, e)

WebNext ==
    \/ DeliverAny
    \/ StepCheck("web")
    \/ StepDetails("web")
    \/ StepFiles("web")
    \/ StepGenerate("web")
    \/ StepPost("web")
    \/ Finish("web")

WebSpec == WebInit /\ [][WebNext]_vars

\* --------------------------------------------- verify_signature on its own


SigInit ==
    /\ webhook_secret \in {None} \cup Range(Secrets)
    /\ gh = CHOOSE g \in InitialPulls : TRUE
    /\ thr = [t \in Threads |-> IdleThread]
    /\ triggers = 0
    /\ sigcall = NoCall
    /\ filtercall = NoFilterCall
    /\ NoPolling
    /\ NoRest

\* One call of verify_signature(payload_body, signature_header).
SigVerify ==
    \E b \in Bodies : \E h \in Headers(b) :
        /\ sigcall' = [called |-> TRUE, secret |-> webhook_secret, body |-> b,
                       header |-> h,
                       result |-> verify_signature(webhook_secret, b, h)]
        /\ UNCHANGED <<webhook_secret, gh, thr, triggers, filtercall, pollvars, restvars>>

SigNext == SigVerify

SigSpec == SigInit /\ [][SigNext]_vars

\* ------------------------------------------- review_pull_request on its own

\* The model names a caller of the /review route may ask for: none, an empty
\* one, the two the manager knows and one it does not.
ModelNames == {None, "", "gemini", "perplexity", "gpt-4"}

\* POST /review (review_pr): review_pull_request(repo_name, pr_number,
\* model_name, force_review) with the values of the request's JSON, unless the
\* repository name or the number is missing (400).
Review(t, repo_name, pr_number, model_name, force_review) ==
    /\ t = "web"
    /\ thr[t].pc = "idle"
    /\ triggers < MaxTriggers
    /\ triggers' = triggers + 1
    /\ LET c == [IdleThread EXCEPT !.kind = "manual"]
       IN  thr' = [thr EXCEPT ![t] =
                IF Missing(repo_name, pr_number)
                THEN [c EXCEPT !.pc = "done", !.status = 400,
                               !.error = "repo_name and pr_number are required"]
                ELSE [StartRun(c, gh, repo_name, pr_number, force_review)
                        EXCEPT !.model_name = model_name]]
    /\ UNCHANGED <<webhook_secret, gh, sigcall, filtercall, pollvars, restvars>>

RunInit ==
    /\ webhook_secret = None
    /\ gh \in InitialPulls
    /\ thr = [t \in Threads |-> IdleThread]
    /\ triggers = 0
    /\ sigcall = NoCall
    /\ filtercall = NoFilterCall
    /\ NoPolling
    /\ NoRest

ReviewAny ==
    \E r \in Range(RepoKeys) : \E n \in Range(PrKeys) :
    \E m \in ModelNames : \E f \in BOOLEAN :
        Review("web", r, n, m, f)

RunNext ==
    \/ ReviewAny
    \/ StepCheck("web")
    \/ StepDetails("web")
    \/ StepFiles("web")
    \/ StepGenerate("web")
    \/ StepPost("web")
    \/ Finish("web")

RunSpec == RunInit /\ [][RunNext]_vars

\* ------------------------------------ _filter_reviewable_files on its own

\* The longest list of changed files the filter is applied to.
MaxFiles == 3

\* Changed files of every kind the filter tells apart: source files, a
\* lockfile, a removed file, a file without patch, files without extension
\* with and without a script-like patch, an upper-case extension, a build
\* directory, an extension that is not reviewed, a directory with a dot.
FilePool ==
    { File("a.py", "modified", "x"),
      File("package-lock.json", "modified", "y"),
      File("b.py", "removed", "z"),
      File("c.py", "added", ""),
      File("bin/run", "added", "#!/bin/sh"),
      File("bin/tool", "modified", "x"),
      File("A.PY", "modified", "x"),
      File("dist/x.js", "modified", "x"),
      File("README.md", "modified", "import x"),
      File("lib.d/run", "renamed", "import os") }

\* The lists of at most n files of the pool, repetitions included.
FileSeqs(n) == UNION {[1..k -> FilePool] : k \in 0..n}

FilterInit ==
    /\ webhook_secret = None
    /\ gh = CHOOSE g \in InitialPulls : TRUE
    /\ thr = [t \in Threads |-> IdleThread]
    /\ triggers = 0
    /\ sigcall = NoCall
    /\ filtercall = NoFilterCall
    /\ NoPolling
    /\ NoRest

\* One call of _filter_reviewable_files(files_data).
FilterApply ==
    \E files_data \in FileSeqs(MaxFiles) :
        /\ ~filtercall.called
        /\ filtercall' = [called |-> TRUE, files_data |-> files_data,
                          result |-> _filter_reviewable_files(files_data)]
        /\ UNCHANGED <<webhook_secret, gh, thr, triggers, sigcall, pollvars, restvars>>

FilterNext == FilterApply

FilterSpec == FilterInit /\ [][FilterNext]_vars

\* ------------------------------------------------ PollingManager at work

\* The repositories of the model, and the lists Config.MONITORED_REPOS may
\* hold at start: the MONITORED_REPOS of the environment split at its commas
\* (unset, "o/r", "o/r,o/s", "o/r,o/r").
Repos == <<"o/r", "o/s">>
RepoLists == {<<>>, <<Repos[1]>>, <<Repos[1], Repos[2]>>, <<Repos[1], Repos[1]>>}

\* Config.POLLING_INTERVAL.
PollingInterval == 300

\* threading.Thread.is_alive().
Alive(w) == w \in WorkerIds /\ workers[w].pc \notin {"unborn", "dead"}

\* A get_polling_status that takes a thread that was started for a running
\* one.
get_polling_status_thread_set ==
    [enabled |-> enable_polling,
     running |-> polling_thread # NoThread,
     interval |-> PollingInterval,
     monitored_repos |-> monitored_repos,
     next_run |-> jobs > 0]

\* PollingManager.get_polling_status; next_run: whether there is one.
get_polling_status ==
    [enabled |-> enable_polling,
     running |-> polling_thread # NoThread /\ Alive(polling_thread),
     interval |-> PollingInterval,
     monitored_repos |-> monitored_repos,
     next_run |-> jobs > 0]

\* A start_polling without the test for an empty monitored_repos.
start_polling_unless_disabled ==
    /\ ctl.pc = "idle"
    /\ IF ~enable_polling
       THEN /\ ctl' = [ctl EXCEPT !.last = "start_noop"]
            /\ UNCHANGED <<jobs, stop_polling, polling_thread, workers>>
       ELSE \E w \in WorkerIds :
              /\ workers[w].pc = "unborn"
              /\ \A v \in WorkerIds : v < w => workers[v].pc # "unborn"
              /\ jobs' = jobs + 1
              /\ stop_polling' = FALSE
              /\ polling_thread' = w
              /\ workers' = [workers EXCEPT ![w].pc = "loop"]
              /\ ctl' = [ctl EXCEPT !.last = "start", !.timed_out = FALSE]
    /\ UNCHANGED <<webhook_secret, gh, thr, triggers, sigcall, filtercall, restvars,
                   enable_polling, monitored_repos, ticks, edits>>

\* PollingManager.start_polling: nothing when polling is disabled or no
\* repository is monitored; else one more job in `schedule`, the stop flag
\* down, and a new thread in _run_polling.
start_polling ==
    /\ ctl.pc = "idle"
    /\ IF ~enable_polling \/ monitored_repos = <<>>
       THEN /\ ctl' = [ctl EXCEPT !.last = "start_noop"]
            /\ UNCHANGED <<jobs, stop_polling, polling_thread, workers>>
       ELSE \E w \in WorkerIds :
              /\ workers[w].pc = "unborn"
              /\ \A v \in WorkerIds : v < w => workers[v].pc # "unborn"
              /\ jobs' = jobs + 1
              /\ stop_polling' = FALSE
              /\ polling_thread' = w
              /\ workers' = [workers EXCEPT ![w].pc = "loop"]
              /\ ctl' = [ctl EXCEPT !.last = "start", !.timed_out = FALSE]
    /\ UNCHANGED <<webhook_secret, gh, thr, triggers, sigcall, filtercall, restvars,
                   enable_polling, monitored_repos, ticks, edits>>

\* stop_polling_process, `self.stop_polling = True`.
stop_polling_process ==
    /\ ctl.pc = "idle"
    /\ stop_polling' = TRUE
    /\ ctl' = [ctl EXCEPT !.pc = "clear", !.last = "stopping"]
    /\ UNCHANGED <<webhook_secret, gh, thr, triggers, sigcall, filtercall, restvars,
                   enable_polling, monitored_repos, polling_thread, jobs,
                   workers, ticks, edits>>

\* stop_polling_process, `schedule.clear()`.
schedule_clear ==
    /\ ctl.pc = "clear"
    /\ jobs' = 0
    /\ ctl' = [ctl EXCEPT !.pc = "join"]
    /\ UNCHANGED <<webhook_secret, gh, thr, triggers, sigcall, filtercall, restvars,
                   enable_polling, monitored_repos, stop_polling,
                   polling_thread, workers, ticks, edits>>

\* stop_polling_process, `self.polling_thread.join(timeout=5)` and the
\* return: at once without a live thread; when the thread has ended; or after
\* the timeout, which a thread outlasts only inside the poll of a repository
\* (everywhere else it is within two seconds of its loop test).
join_timeout ==
    /\ ctl.pc = "join"
    /\ \/ /\ polling_thread = NoThread \/ ~Alive(polling_thread)
          /\ ctl' = [ctl EXCEPT !.pc = "idle", !.last = "stop"]
       \/ /\ Alive(polling_thread)
          /\ workers[polling_thread].pc = "poll"
          /\ ctl' = [ctl EXCEPT !.pc = "idle", !.last = "stop",
                                !.timed_out = TRUE]
    /\ UNCHANGED <<webhook_secret, gh, thr, triggers, sigcall, filtercall, restvars,
                   enable_polling, monitored_repos, stop_polling,
                   polling_thread, jobs, workers, ticks, edits>>

\* A thread inside _poll_repositories sees monitored_repos change: `gone` are
\* the repositories taken out of it.
Edited(ws, changed, gone) ==
    [w \in WorkerIds |->
        IF changed /\ ws[w].pc \in {"tick", "poll"}
        THEN [ws[w] EXCEPT !.edited = TRUE, !.dropped = @ \cup gone]
        ELSE ws[w]]

\* PollingManager.add_repository, on a request thread.
add_repository(repo_name) ==
    /\ edits < MaxEdits
    /\ edits' = edits + 1
    /\ monitored_repos' = IF repo_name \in Range(monitored_repos)
                          THEN monitored_repos
                          ELSE Append(monitored_repos, repo_name)
    /\ workers' = Edited(workers, repo_name \notin Range(monitored_repos), {})
    /\ UNCHANGED <<webhook_secret, gh, thr, triggers, sigcall, filtercall, restvars,
                   enable_polling, stop_polling, polling_thread, jobs, ctl,
                   ticks>>

\* list.remove(x): the list without the first x.
ListRemove(s, x) ==
    LET i == CHOOSE k \in 1..Len(s) : s[k] = x /\ \A j \in 1..(k - 1) : s[j] # x
    IN  SubSeq(s, 1, i - 1) \o SubSeq(s, i + 1, Len(s))

\* PollingManager.remove_repository, on a request thread.
remove_repository(repo_name) ==
    /\ edits < MaxEdits
    /\ edits' = edits + 1
    /\ monitored_repos' = IF repo_name \in Range(monitored_repos)
                          THEN ListRemove(monitored_repos, repo_name)
                          ELSE monitored_repos
    /\ workers' = Edited(workers, repo_name \in Range(monitored_repos),
                          {repo_name})
    /\ UNCHANGED <<webhook_secret, gh, thr, triggers, sigcall, filtercall, restvars,
                   enable_polling, stop_polling, polling_thread, jobs, ctl,
                   ticks>>

\* What a thread's step leaves alone.
WorkerFrame ==
    UNCHANGED <<webhook_secret, gh, thr, triggers, sigcall, filtercall, restvars,
                enable_polling, monitored_repos, stop_polling, polling_thread,
                jobs, ctl, edits>>

\* _run_polling, `while not self.stop_polling`.
_run_polling(w) ==
    /\ workers[w].pc = "loop"
    /\ workers' = [workers EXCEPT ![w] =
            IF stop_polling
            THEN [@ EXCEPT !.pc = "dead", !.exit = "stop_polling"]
            ELSE [@ EXCEPT !.pc = "run_pending"]]
    /\ UNCHANGED ticks
    /\ WorkerFrame

\* A _run_polling without its try: an exception ends the thread.
run_pending_unguarded(w) ==
    /\ workers[w].pc = "run_pending"
    /\ \E due \in 0..jobs : \E raises \in BOOLEAN :
        /\ due <= MaxTicks - ticks
        /\ workers' = [workers EXCEPT ![w] =
                IF raises THEN [@ EXCEPT !.pc = "dead", !.exit = "exception"]
                ELSE IF due = 0 THEN [@ EXCEPT !.pc = "loop"]
                ELSE [@ EXCEPT !.pc = "pending", !.todo = due, !.fired = 0]]
    /\ UNCHANGED ticks
    /\ WorkerFrame

\* _run_polling, `schedule.run_pending()` up to its list of the jobs that are
\* due (some of the scheduled ones, as the clock has it), `time.sleep(1)` when
\* none is, and the `except Exception` branch when it raises.
run_pending(w) ==
    /\ workers[w].pc = "run_pending"
    /\ \E due \in 0..jobs : \E raises \in BOOLEAN :
        /\ due <= MaxTicks - ticks
        /\ workers' = [workers EXCEPT ![w] =
                IF raises THEN [@ EXCEPT !.pc = "loop", !.caught = TRUE]
                ELSE IF due = 0 THEN [@ EXCEPT !.pc = "loop"]
                ELSE [@ EXCEPT !.pc = "pending", !.todo = due, !.fired = 0]]
    /\ UNCHANGED ticks
    /\ WorkerFrame

\* schedule.run_pending(), the loop over the due jobs: the next one calls
\* _poll_repositories; after the last one, `time.sleep(1)`.
run_job(w) ==
    /\ workers[w].pc = "pending"
    /\ IF workers[w].todo = 0
       THEN /\ workers' = [workers EXCEPT ![w] =
                    [Unborn EXCEPT !.pc = "loop",
                                   !.caught = workers[w].caught]]
            /\ UNCHANGED ticks
       ELSE /\ ticks < MaxTicks
            /\ ticks' = ticks + 1
            /\ workers' = [workers EXCEPT ![w] =
                    [@ EXCEPT !.pc = "tick", !.todo = @ - 1, !.fired = @ + 1,
                              !.idx = 0, !.repo = None,
                              !.snapshot = monitored_repos, !.polled = <<>>,
                              !.failed = 0, !.edited = FALSE,
                              !.dropped = {},
                              !.ended = None]]
    /\ WorkerFrame

\* _poll_repositories, `for repo_name in self.monitored_repos` (an iterator
\* over the list itself) and `if self.stop_polling: break`.
_poll_repositories(w) ==
    /\ workers[w].pc = "tick"
    /\ workers' = [workers EXCEPT ![w] =
            IF workers[w].idx >= Len(monitored_repos)
            THEN [@ EXCEPT !.pc = "pending", !.ended = "exhausted"]
            ELSE IF stop_polling
            THEN [@ EXCEPT !.pc = "pending", !.ended = "stopped"]
            ELSE [@ EXCEPT !.pc = "poll", !.idx = @ + 1,
                           !.repo = monitored_repos[workers[w].idx + 1]]]
    /\ UNCHANGED ticks
    /\ WorkerFrame

\* A _poll_repositories whose try does not cover the poll of a repository.
poll_repository_unguarded(w) ==
    /\ workers[w].pc = "poll"
    /\ \E result \in {"ok", "failed", "raised"} :
        workers' = [workers EXCEPT ![w] =
            IF result = "raised"
            THEN [@ EXCEPT !.pc = "loop", !.todo = 0, !.ended = "exception",
                           !.failed = IF @ = 0 THEN Len(workers[w].polled) + 1
                                      ELSE @,
                           !.polled = Append(@, workers[w].repo)]
            ELSE [@ EXCEPT !.pc = "tick",
                           !.failed = IF @ = 0 /\ result # "ok"
                                      THEN Len(workers[w].polled) + 1 ELSE @,
                           !.polled = Append(@, workers[w].repo)]]
    /\ UNCHANGED ticks
    /\ WorkerFrame

\* _poll_repositories, the body of the loop: review_recent_prs(repo_name,
\* limit=3) gives the results of the reviews ("ok"), the one failed result of
\* a failed listing ("failed"), or an exception the `except Exception` of the
\* body catches ("raised"); the loop goes on in each case.
poll_repository(w) ==
    /\ workers[w].pc = "poll"
    /\ \E result \in {"ok", "failed", "raised"} :
        workers' = [workers EXCEPT ![w] =
            [@ EXCEPT !.pc = "tick",
                      !.failed = IF @ = 0 /\ result # "ok"
                                 THEN Len(workers[w].polled) + 1 ELSE @,
                      !.polled = Append(@, workers[w].repo)]]
    /\ UNCHANGED ticks
    /\ WorkerFrame

SchedInit ==
    /\ webhook_secret = None
    /\ gh = CHOOSE g \in InitialPulls : TRUE
    /\ thr = [t \in Threads |-> IdleThread]
    /\ triggers = 0
    /\ sigcall = NoCall
    /\ filtercall = NoFilterCall
    /\ enable_polling \in BOOLEAN
    /\ monitored_repos \in RepoLists
    /\ stop_polling = FALSE
    /\ polling_thread = NoThread
    /\ jobs = 0
    /\ workers = [w \in WorkerIds |-> Unborn]
    /\ ctl = IdleCtl
    /\ ticks = 0
    /\ edits = 0
    /\ NoRest

SchedNext ==
    \/ start_polling
    \/ stop_polling_process
    \/ schedule_clear
    \/ join_timeout
    \/ \E r \in Range(Repos) : add_repository(r)
    \/ \E r \in Range(Repos) : remove_repository(r)
    \/ \E w \in WorkerIds : _run_polling(w)
    \/ \E w \in WorkerIds : run_pending(w)
    \/ \E w \in WorkerIds : run_job(w)
    \/ \E w \in WorkerIds : _poll_repositories(w)
    \/ \E w \in WorkerIds : poll_repository(w)

SchedSpec == SchedInit /\ [][SchedNext]_vars

\* ------------------------------------------------------------ POST /config

\* POST /config requests the model makes.
MaxUpdates == 1

\* The JSON objects of the requests: any of the keys default_model,
\* polling_enabled and monitored_repos, with a value each (read only when the
\* key is there).
ConfigKeys == {"default_model", "polling_enabled", "monitored_repos"}
UpdateBodies ==
    { [keys |-> k, default_model |-> "perplexity", polling_enabled |-> e,
       monitored_repos |-> l] :
        k \in SUBSET ConfigKeys, e \in BOOLEAN, l \in {<<>>, <<Repos[2]>>} }

\* Config.MONITORED_REPOS, as GET /config reads it.
ConfigRepos ==
    IF config.same_list THEN monitored_repos ELSE config.monitored_repos

\* An update_config that writes the repositories into the manager's list.
update_config_through(data) ==
    /\ updates < MaxUpdates
    /\ updates' = updates + 1
    /\ IF data.keys = {}
       THEN /\ config' = [config EXCEPT !.status = 400]
            /\ UNCHANGED <<enable_polling, monitored_repos>>
       ELSE /\ config' =
                [config EXCEPT
                    !.default_model = IF "default_model" \in data.keys
                                      THEN data.default_model ELSE @,
                    !.status = 200]
            /\ enable_polling' = IF "polling_enabled" \in data.keys
                                 THEN data.polling_enabled ELSE enable_polling
            /\ monitored_repos' = IF "monitored_repos" \in data.keys
                                  THEN data.monitored_repos ELSE monitored_repos
    /\ UNCHANGED <<webhook_secret, gh, thr, triggers, sigcall, filtercall,
                   stop_polling, polling_thread, jobs, workers, ctl, ticks,
                   edits, valcall, pending_edits, repo_files, push, staged>>

\* update_config (POST /config): 400 for an empty object; else each key that
\* is there is assigned to its attribute of Config. Assigning
\* Config.MONITORED_REPOS binds the name to the list of the request; the list
\* the polling manager took at its construction stays as it is.
update_config(data) ==
    /\ updates < MaxUpdates
    /\ updates' = updates + 1
    /\ IF data.keys = {}
       THEN /\ config' = [config EXCEPT !.status = 400]
            /\ UNCHANGED enable_polling
       ELSE /\ config' =
                [config EXCEPT
                    !.default_model = IF "default_model" \in data.keys
                                      THEN data.default_model ELSE @,
                    !.same_list = @ /\ "monitored_repos" \notin data.keys,
                    !.monitored_repos = IF "monitored_repos" \in data.keys
                                        THEN data.monitored_repos ELSE @,
                    !.status = 200]
            /\ enable_polling' = IF "polling_enabled" \in data.keys
                                 THEN data.polling_enabled ELSE enable_polling
    /\ UNCHANGED <<webhook_secret, gh, thr, triggers, sigcall, filtercall,
                   monitored_repos, stop_polling, polling_thread, jobs,
                   workers, ctl, ticks, edits, valcall, pending_edits,
                   repo_files, push, staged>>

\* The polling manager with POST /config requests coming in.
ConfigNext ==
    \/ \E data \in UpdateBodies : update_config(data)
    \/ start_polling
    \/ stop_polling_process
    \/ schedule_clear
    \/ join_timeout
    \/ \E w \in WorkerIds : _run_polling(w)
    \/ \E w \in WorkerIds : run_pending(w)
    \/ \E w \in WorkerIds : run_job(w)
    \/ \E w \in WorkerIds : _poll_repositories(w)
    \/ \E w \in WorkerIds : poll_repository(w)

\* A fresh polling manager with no repository or one.
ConfigInit ==
    /\ SchedInit
    /\ monitored_repos \in {<<>>, <<Repos[1]>>}

ConfigSpec == ConfigInit /\ [][ConfigNext]_vars

\* ------------------------------------------------------- one poll tick

\* The most open pull requests GitHub lists for a repository.
MaxListed == 4

\* The listings of get_pulls(state="open", sort="updated", direction="desc"):
\* the numbers of the open pull requests, most recently updated first.
Listings == {[i \in 1..n |-> PrNumber + (i - 1)] : n \in 0..MaxListed}

\* A thread of _run_polling whose run_pending has found the job due, with
\* the listing GitHub gives for a repository; every pull request of a listing
\* is one that is no draft, has one reviewable file and nothing on it.
TickInit ==
    /\ webhook_secret = None
    /\ \E l \in Listings :
          gh = [draft |-> FALSE, files |-> <<File("a.py", "modified", "x")>>,
                open |-> l, comments |-> <<>>, reviews |-> <<>>]
    /\ thr = [t \in Threads |-> IdleThread]
    /\ triggers = 0
    /\ sigcall = NoCall
    /\ filtercall = NoFilterCall
    /\ enable_polling = TRUE
    /\ monitored_repos \in {<<Repos[1]>>, <<Repos[1], Repos[2]>>}
    /\ stop_polling = FALSE
    /\ polling_thread = 1
    /\ jobs = 1
    /\ workers = [w \in WorkerIds |->
                    IF w = 1 THEN [Unborn EXCEPT !.pc = "pending", !.todo = 1]
                    ELSE Unborn]
    /\ ctl = [IdleCtl EXCEPT !.last = "start"]
    /\ ticks = 0
    /\ edits = 0
    /\ NoRest

\* _poll_repositories, the body of the loop up to the first step of
\* review_recent_prs(repo_name, limit=3): the listing, then
\* review_pull_request(repo_name, number, model_name=None) for the first pull
\* request of the list, on the thread of _run_polling.
poll_repository_begin(w) ==
    /\ workers[w].pc = "poll"
    /\ thr["poll"].pc = "idle"
    /\ \E fails \in BOOLEAN :
        LET r == get_recent_prs(gh, PollLimit, fails)
            c == [IdleThread EXCEPT !.kind = "poll",
                                    !.repo_name = workers[w].repo,
                                    !.queue = r.val]
        IN  thr' = [thr EXCEPT !["poll"] =
                IF r.exc # None
                THEN [c EXCEPT !.pc = "done",
                               !.results = <<[pr_number |-> NoNumber,
                                              result |-> Failed(r.exc)]>>]
                ELSE IF r.val = <<>> THEN [c EXCEPT !.pc = "done"]
                ELSE StartRun(c, gh, workers[w].repo, Head(r.val), FALSE)]
    /\ UNCHANGED <<webhook_secret, gh, triggers, sigcall, filtercall, pollvars,
                   restvars>>

\* _poll_repositories, the rest of the body: review_recent_prs has returned
\* its results, they are logged, and after `time.sleep(2)` the loop goes on.
poll_repository_end(w) ==
    /\ workers[w].pc = "poll"
    /\ thr["poll"].pc = "done"
    /\ thr' = [thr EXCEPT !["poll"] = IdleThread]
    /\ workers' = [workers EXCEPT ![w] =
            [@ EXCEPT !.pc = "tick",
                      !.failed = IF @ = 0 /\ \E i \in 1..Len(thr["poll"].results) :
                                               ~thr["poll"].results[i].result.success
                                 THEN Len(workers[w].polled) + 1 ELSE @,
                      !.polled = Append(@, workers[w].repo)]]
    /\ UNCHANGED <<webhook_secret, gh, triggers, sigcall, filtercall,
                   enable_polling, monitored_repos, stop_polling,
                   polling_thread, jobs, ctl, ticks, edits, restvars>>

\* One call of _poll_repositories with the pipeline under it.
TickNext ==
    \/ \E w \in WorkerIds : run_job(w)
    \/ \E w \in WorkerIds : _poll_repositories(w)
    \/ \E w \in WorkerIds : poll_repository_begin(w)
    \/ StepCheck("poll")
    \/ StepDetails("poll")
    \/ StepFiles("poll")
    \/ StepGenerate("poll")
    \/ StepPost("poll")
    \/ \E w \in WorkerIds : poll_repository_end(w)
    \/ \E w \in WorkerIds : _run_polling(w)

TickSpec == TickInit /\ [][TickNext]_vars

\* ------------------------------------------------------- the agent routes

\* accept_edit and push_edits requests the model makes.
MaxAccepts == 2
MaxPushes == 2

\* The files and the contents of the requests.
Paths == {"a.py", "b.py"}
Contents == {"v1", "v2"}

\* request.json of POST /agent/edit: a JSON object with any of path and
\* new_content (an absent key reads None), or a JSON value that is no object.
EditBodies ==
    { [object |-> o, path |-> p, new_content |-> c] :
        o \in BOOLEAN, p \in Paths \cup {None, ""}, c \in Contents \cup {None} }

\* request.json of POST /agent/push: an object, or a JSON value that is none
\* (null, a list).
PushBodies == {[object |-> o] : o \in BOOLEAN}

\* `d[path] = new_content` on a dict held as the list of its items: the value
\* of a key that is there is replaced in place, a new key goes to the end.
DictSet(d, path, new_content) ==
    IF \E i \in 1..Len(d) : d[i].path = path
    THEN [i \in 1..Len(d) |->
            IF d[i].path = path THEN [path |-> path, new_content |-> new_content]
            ELSE d[i]]
    ELSE Append(d, [path |-> path, new_content |-> new_content])

\* accept_edit (POST /agent/edit): `data.get` on a body that is no object
\* raises (500); 400 without a path or a content; else the edit is staged.
accept_edit(data) ==
    /\ Len(staged) < MaxAccepts
    /\ staged' = Append(staged,
            [path |-> data.path, new_content |-> data.new_content,
             status |-> IF ~data.object THEN 500
                        ELSE IF ~Truthy(data.path) \/ data.new_content = None
                        THEN 400 ELSE 200])
    /\ IF data.object /\ Truthy(data.path) /\ data.new_content # None
       THEN /\ pending_edits' = DictSet(pending_edits, data.path, data.new_content)
            /\ push' = IF push.pc # "idle" THEN [push EXCEPT !.raced = TRUE]
                       ELSE push
       ELSE UNCHANGED <<pending_edits, push>>
    /\ UNCHANGED <<webhook_secret, gh, thr, triggers, sigcall, filtercall,
                   pollvars, config, updates, valcall, repo_files>>

\* What a step of push_edits leaves alone.
PushFrame ==
    UNCHANGED <<webhook_secret, gh, thr, triggers, sigcall, filtercall,
                pollvars, config, updates, valcall, staged>>

\* push_edits (POST /agent/push) up to its loop: 400 without a repo;
\* `request.json.get` raises on a body that is no object, outside the try
\* (500); 400 for an empty pending_edits; else the iterator of
\* pending_edits.items() is made.
push_edits(body) ==
    /\ push.pc = "idle"
    /\ push.pushes < MaxPushes
    /\ LET p == [IdlePush EXCEPT !.configured = push.configured,
                                 !.pushes = push.pushes + 1,
                                 !.took = pending_edits]
       IN  push' = IF ~push.configured THEN [p EXCEPT !.pc = "done", !.status = 400]
                   ELSE IF ~body.object THEN [p EXCEPT !.pc = "done", !.status = 500]
                   ELSE IF pending_edits = <<>>
                   THEN [p EXCEPT !.pc = "done", !.status = 400]
                   ELSE [p EXCEPT !.pc = "iter", !.size = Len(pending_edits)]
    /\ UNCHANGED <<pending_edits, repo_files>>
    /\ PushFrame

\* push_edits, `for path, new_content in pending_edits.items()`: the iterator
\* raises RuntimeError when the dict has changed its size (caught: 500), ends
\* after the last item, or gives the next item as the dict holds it now.
push_next ==
    /\ push.pc = "iter"
    /\ push' = IF Len(pending_edits) # push.size
               THEN [push EXCEPT !.pc = "done", !.status = 500]
               ELSE IF push.it >= Len(pending_edits)
               THEN [push EXCEPT !.pc = "clear"]
               ELSE [push EXCEPT !.pc = "write", !.it = @ + 1,
                                 !.path = pending_edits[push.it + 1].path,
                                 !.new_content =
                                     pending_edits[push.it + 1].new_content]
    /\ UNCHANGED <<pending_edits, repo_files>>
    /\ PushFrame

\* push_edits, the body of the loop: repo.get_contents(path) and
\* repo.update_file(path, commit_message, new_content, file.sha); either may
\* raise (caught: 500).
push_write ==
    /\ push.pc = "write"
    /\ \E fails \in BOOLEAN :
        IF fails
        THEN /\ push' = [push EXCEPT !.pc = "done", !.status = 500]
             /\ UNCHANGED <<pending_edits, repo_files>>
        ELSE LET w == [path |-> push.path, new_content |-> push.new_content]
             IN  /\ repo_files' = Append(repo_files, w)
                 /\ push' = [push EXCEPT !.pc = "iter",
                                         !.wrote = Append(@, w),
                                         !.results = Append(@, push.path)]
                 /\ UNCHANGED pending_edits
    /\ PushFrame

\* push_edits, `pending_edits.clear()` and the 200 response.
push_clear ==
    /\ push.pc = "clear"
    /\ pending_edits' = <<>>
    /\ push' = [push EXCEPT !.pc = "done", !.status = 200]
    /\ UNCHANGED repo_files
    /\ PushFrame

\* The response of push_edits is sent.
push_return ==
    /\ push.pc = "done"
    /\ push' = [IdlePush EXCEPT !.configured = push.configured,
                                !.pushes = push.pushes]
    /\ UNCHANGED <<pending_edits, repo_files>>
    /\ PushFrame

\* The agent routes of a process with or without its repo.
AgentInit ==
    /\ webhook_secret = None
    /\ gh = CHOOSE g \in InitialPulls : TRUE
    /\ thr = [t \in Threads |-> IdleThread]
    /\ triggers = 0
    /\ sigcall = NoCall
    /\ filtercall = NoFilterCall
    /\ NoPolling
    /\ config = StartConfig
    /\ updates = 0
    /\ valcall = NoValCall
    /\ pending_edits = <<>>
    /\ repo_files = <<>>
    /\ push \in {[IdlePush EXCEPT !.configured = b] : b \in BOOLEAN}
    /\ staged = <<>>

AgentNext ==
    \/ \E data \in EditBodies : accept_edit(data)
    \/ \E body \in PushBodies : push_edits(body)
    \/ push_next
    \/ push_write
    \/ push_clear
    \/ push_return

AgentSpec == AgentInit /\ [][AgentNext]_vars

\* -------------------------------------------------- Config.validate_config

\* The values of an Optional[str] setting: unset, empty, set.
Settings == {None, "", "test_token"}

\* The attributes of Config that validate_config reads.
Configs ==
    [GITHUB_TOKEN : Settings, GEMINI_API_KEY : Settings,
     PERPLEXITY_API_KEY : Settings,
     DEFAULT_AI_MODEL : {"gemini", "perplexity", "gpt-4"},
     MONITORED_REPOS : {<<>>, <<Repos[1]>>}, ENABLE_POLLING : BOOLEAN]

\* `errors.append(message)` under `if test`.
AppendIf(test, message) == IF test THEN <<message>> ELSE <<>>

\* A validate_config that does not ask for the GitHub token.
validate_config_token_optional(cls) ==
    LET errors ==
            AppendIf(~Truthy(cls.GEMINI_API_KEY) /\ ~Truthy(cls.PERPLEXITY_API_KEY),
                     "At least one AI API key (GEMINI_API_KEY or PERPLEXITY_API_KEY) is required")
            \o AppendIf(cls.DEFAULT_AI_MODEL = "gemini" /\ ~Truthy(cls.GEMINI_API_KEY),
                        "GEMINI_API_KEY is required when DEFAULT_AI_MODEL is 'gemini'")
            \o AppendIf(cls.DEFAULT_AI_MODEL = "perplexity"
                            /\ ~Truthy(cls.PERPLEXITY_API_KEY),
                        "PERPLEXITY_API_KEY is required when DEFAULT_AI_MODEL is 'perplexity'")
        warnings ==
            AppendIf(cls.DEFAULT_AI_MODEL \notin {"gemini", "perplexity"},
                     "DEFAULT_AI_MODEL should be 'gemini' or 'perplexity'")
            \o AppendIf(cls.MONITORED_REPOS = <<>> /\ cls.ENABLE_POLLING,
                        "MONITORED_REPOS should be specified when polling is enabled")
    IN  [valid |-> Len(errors) = 0, errors |-> errors, warnings |-> warnings]

\* Config.validate_config: the errors and the warnings in the order of the
\* tests, and valid for `len(errors) == 0`.
validate_config(cls) ==
    LET errors ==
            AppendIf(~Truthy(cls.GITHUB_TOKEN), "GITHUB_TOKEN is required")
            \o AppendIf(~Truthy(cls.GEMINI_API_KEY) /\ ~Truthy(cls.PERPLEXITY_API_KEY),
                        "At least one AI API key (GEMINI_API_KEY or PERPLEXITY_API_KEY) is required")
            \o AppendIf(cls.DEFAULT_AI_MODEL = "gemini" /\ ~Truthy(cls.GEMINI_API_KEY),
                        "GEMINI_API_KEY is required when DEFAULT_AI_MODEL is 'gemini'")
            \o AppendIf(cls.DEFAULT_AI_MODEL = "perplexity"
                            /\ ~Truthy(cls.PERPLEXITY_API_KEY),
                        "PERPLEXITY_API_KEY is required when DEFAULT_AI_MODEL is 'perplexity'")
        warnings ==
            AppendIf(cls.DEFAULT_AI_MODEL \notin {"gemini", "perplexity"},
                     "DEFAULT_AI_MODEL should be 'gemini' or 'perplexity'")
            \o AppendIf(cls.MONITORED_REPOS = <<>> /\ cls.ENABLE_POLLING,
                        "MONITORED_REPOS should be specified when polling is enabled")
    IN  [valid |-> Len(errors) = 0, errors |-> errors, warnings |-> warnings]

\* One call of Config.validate_config() under the settings `cls`.
ValidateApply ==
    \E cls \in Configs :
        /\ ~valcall.called
        /\ valcall' = [called |-> TRUE, settings |-> cls,
                       result |-> validate_config(cls)]
        /\ UNCHANGED <<webhook_secret, gh, thr, triggers, sigcall, filtercall,
                       pollvars, config, updates, pending_edits, repo_files,
                       push, staged>>

ValidateNext == ValidateApply

ValidateSpec == FilterInit /\ [][ValidateNext]_vars

\* ================================================================= claims

\* A thread that is handling a webhook request.
InWebhook(t) == thr[t].kind = "webhook"
\* A thread inside a call of review_pull_request, or back from it.
InRun(t) == thr[t].invoked > 0
\* The comments the pipeline posted for runs that `trig` triggered.
PostsBy(trig) ==
    {i \in PipelinePosts(gh.comments) : gh.comments[i].by.trigger \in trig}

\* C1 (as claimed): of the runs without force that began while the pull
\* request had no comment of the pipeline, at most one posts a comment.
C1_OnePostPerUnreviewedPr ==
    Cardinality({i \in PostsBy({"opened", "reopened", "poll"}) :
                    gh.comments[i].by.seen = 0}) <= 1

\* The comments of the pipeline that a run without force posted and that were
\* on the pull request when the run thread t is in began.
UnforcedPostsBefore(t) ==
    {i \in PostsBy({"opened", "reopened", "poll"}) :
        Cardinality({j \in PipelinePosts(gh.comments) : j <= i}) <= thr[t].seen}

\* C2 (as claimed): a run without force for a pull request on which an earlier
\* run without force has posted calls neither the AI model nor
\* post_pr_comment and returns the skipped "already reviewed" outcome --
\* stated here only for runs none of whose collaborator calls fails upstream.
C2_SecondRunSkipped ==
    \A t \in Threads :
        (/\ InRun(t)
         /\ thr[t].repo_name = RepoName /\ thr[t].pr_number = PrNumber
         /\ ~thr[t].force_review /\ ~thr[t].faulted
         /\ UnforcedPostsBefore(t) # {})
        => /\ thr[t].calls.generate = 0
           /\ thr[t].calls.post = 0
           /\ thr[t].pc = "done" => thr[t].outcome = Skipped("PR already reviewed")

\* C3 (as claimed): the deliveries of one pull request event (one body, validly
\* signed, action opened, reopened or synchronize) together post at most one
\* comment.
C3_OnePostPerEvent ==
    \A a \in {"opened", "reopened", "synchronize"} :
        Cardinality(PostsBy({a})) <= 1

\* C4 (as claimed): with a secret configured, a request whose signature header
\* is not the signature of its body is answered 401, its body is never parsed
\* and review_pull_request and the collaborators are never called for it.
C4_BadSignatureIs401 ==
    \A t \in Threads :
        (/\ InWebhook(t)
         /\ Truthy(webhook_secret)
         /\ thr[t].sig # Signed(webhook_secret, thr[t].body))
        => /\ thr[t].pc = "done"
           /\ thr[t].status = 401
           /\ ~thr[t].parsed
           /\ thr[t].invoked = 0
           /\ thr[t].calls = ZeroCalls

\* C5 (as claimed): with a secret configured, verify_signature returns true
\* when the header is "sha256=" followed by the hex HMAC of the body under the
\* secret, and returns false for every other header, absent ones included.
C5_VerifyIffExpected ==
    (sigcall.called /\ Truthy(sigcall.secret))
    => sigcall.result
         = Return(sigcall.header = Signed(sigcall.secret, sigcall.body))

\* C6: without a configured secret verify_signature returns true whatever the
\* body and the header are, and the request goes on to json.loads: it is never
\* answered 401.
C6_NoSecretBypass ==
    \A t \in Threads :
        (InWebhook(t) /\ ~Truthy(webhook_secret))
        => /\ thr[t].verified = Return(TRUE)
           /\ thr[t].parsed
           /\ thr[t].status # 401
           /\ thr[t].error # "Invalid signature"

\* C6's case: no secret, a header that is no signature at all, and the request
\* was classified and answered 200.
C6_Witness ==
    /\ ~Truthy(webhook_secret)
    /\ thr["web"].pc = "done"
    /\ thr["web"].sig = "sha256=é"
    /\ thr["web"].event = "ping"
    /\ thr["web"].status = 200

\* C7: for a request that passed the signature step, with event type
\* pull_request and a JSON object as payload, review_pull_request is called
\* exactly once when the action is opened, reopened or synchronize; for every
\* other action, a missing one included, it is never called, no collaborator
\* is called, and the answer is 200 'PR action <action> ignored'.
C7_ActionDecidesReview ==
    \A t \in Threads :
        (/\ InWebhook(t)
         /\ thr[t].parsed
         /\ thr[t].body.kind = "object"
         /\ thr[t].event = "pull_request")
        => IF thr[t].body.action \in {"opened", "reopened", "synchronize"}
           THEN thr[t].invoked = 1
           ELSE /\ thr[t].invoked = 0
                /\ thr[t].calls = ZeroCalls
                /\ thr[t].pc = "done"
                /\ thr[t].status = 200
                /\ thr[t].message
                     = "PR action " \o thr[t].body.action \o " ignored"

\* C7's case: a reopened event was reviewed and the comment posted.
C7_Witness ==
    /\ thr["web"].pc = "done"
    /\ thr["web"].event = "pull_request"
    /\ thr["web"].body.action = "reopened"
    /\ thr["web"].invoked = 1
    /\ thr["web"].outcome.success /\ ~thr["web"].outcome.skipped

\* C8: the webhook handler calls review_pull_request with force_review true
\* exactly when the action is synchronize; review_recent_prs, the polling
\* path, always calls it with force_review false.
C8_ForceFromAction ==
    \A t \in Threads :
        InRun(t)
        => thr[t].force_review
             = (InWebhook(t) /\ thr[t].body.action = "synchronize")

\* C8's case: a synchronize run with force, while a run of the polling thread
\* goes without.
C8_Witness ==
    /\ thr["web"].body.action = "synchronize"
    /\ InRun("web") /\ thr["web"].force_review
    /\ InRun("poll") /\ ~thr["poll"].force_review
    /\ thr["poll"].pc = "post"

\* C9: a request whose event type is not pull_request never reaches
\* review_pull_request or a collaborator. When its body is JSON: ping is
\* answered 200 'Webhook received successfully' whatever the payload is,
\* pull_request_review with an object payload 200 'PR review action <action>
\* received', and every other event type 200 'Event type <type> ignored'.
C9_OtherEventsNeverReview ==
    \A t \in Threads :
        (InWebhook(t) /\ thr[t].event # "pull_request")
        => /\ thr[t].invoked = 0
           /\ thr[t].calls = ZeroCalls
           /\ thr[t].pc = "done"
           /\ (thr[t].parsed /\ thr[t].body.kind \in {"nonobject", "object"})
              => CASE thr[t].event = "ping" ->
                        /\ thr[t].status = 200
                        /\ thr[t].message = "Webhook received successfully"
                   [] thr[t].event = "pull_request_review" ->
                        thr[t].body.kind = "object"
                        => /\ thr[t].status = 200
                           /\ thr[t].message = "PR review action "
                                \o thr[t].body.action \o " received"
                   [] OTHER ->
                        /\ thr[t].status = 200
                        /\ thr[t].message
                             = "Event type " \o thr[t].event \o " ignored"

\* C9's case: a pull_request_review event whose action is `opened` was
\* answered without a review.
C9_Witness ==
    /\ thr["web"].pc = "done"
    /\ thr["web"].event = "pull_request_review"
    /\ thr["web"].body.action = "opened"
    /\ thr["web"].body.pr = PrNumber
    /\ thr["web"].status = 200

\* C10 (as claimed): a pull_request event with an action that starts a review
\* and a payload without the pull_request key or without the repository key
\* never reaches review_pull_request, and is answered 400.
C10_MissingKeysRejected ==
    \A t \in Threads :
        (/\ InWebhook(t)
         /\ thr[t].parsed
         /\ thr[t].event = "pull_request"
         /\ thr[t].body.kind = "object"
         /\ thr[t].body.action \in {"opened", "reopened", "synchronize"}
         /\ (thr[t].body.pr = NoNumber \/ thr[t].body.repo = None))
        => /\ thr[t].invoked = 0
           /\ thr[t].pc = "done"
           /\ thr[t].status = 400

\* C11 (as claimed): a request that passed the signature step and whose body
\* is not valid JSON (bytes that are not UTF-8, or text that is not JSON) is
\* answered 400 without a call of review_pull_request or of a collaborator;
\* one that did not pass the signature step is answered 401 whatever its body.
C11_BadJsonIs400 ==
    \A t \in Threads :
        (InWebhook(t) /\ thr[t].body.kind \in {"notutf8", "badjson"})
        => /\ thr[t].pc = "done"
           /\ thr[t].invoked = 0
           /\ thr[t].calls = ZeroCalls
           /\ thr[t].status = IF thr[t].parsed THEN 400 ELSE 401

\* s is the beginning of r.
IsPrefix(s, r) == Len(s) <= Len(r) /\ s = SubSeq(r, 1, Len(s))

PriorBotReview(t) ==
    \/ thr[t].seen > 0
    \/ \E i \in 1..Len(gh.reviews) : gh.reviews[i] = BotLogin

\* C13 (as claimed): a run without force on a pull request that has a comment
\* or a review of the bot ends as skipped 'already reviewed' (or as Failed),
\* draft or not; it ends as skipped draft only when the bot has left nothing.
C13_AlreadyReviewedFirst ==
    \A t \in Threads :
        (InRun(t) /\ ~thr[t].force_review /\ PriorBotReview(t))
        => /\ thr[t].outcome # Skipped("Skipped draft PR")
           /\ thr[t].calls.generate = 0
           /\ thr[t].pc = "done"
              => \/ thr[t].outcome = Skipped("PR already reviewed")
                 \/ ~thr[t].outcome.success

\* The bot's user has left neither a comment nor a review on the pull request.
NoBotTrace ==
    /\ gh.reviews = <<>>
    /\ \A i \in 1..Len(gh.comments) : gh.comments[i].user # BotLogin

\* C14: a run without force on a draft pull request the bot has left nothing
\* on never calls the AI model and ends as skipped draft (as Failed when the
\* details call failed). A run with force makes no already-reviewed check and
\* is never skipped as draft or as already reviewed, on a draft and on a
\* reviewed pull request alike: once the details are there it fetches the
\* files, and with a reviewable file among them it calls the AI model.
C14_DraftSkipAndForce ==
    \A t \in Threads :
        InRun(t)
        => /\ (~thr[t].force_review /\ gh.draft /\ NoBotTrace)
              => /\ thr[t].calls.generate = 0
                 /\ thr[t].calls.post = 0
                 /\ thr[t].pc = "done"
                    => \/ thr[t].outcome = Skipped("Skipped draft PR")
                       \/ /\ "details" \in thr[t].failures
                          /\ thr[t].outcome = Failed(GithubException)
           /\ thr[t].force_review
              => /\ thr[t].calls.check = 0
                 /\ thr[t].outcome # Skipped("Skipped draft PR")
                 /\ thr[t].outcome # Skipped("PR already reviewed")
                 /\ (thr[t].calls.details = 1 /\ "details" \notin thr[t].failures)
                    => (thr[t].pc = "files" \/ thr[t].calls.files = 1)
                 /\ (/\ thr[t].calls.files = 1
                     /\ "files" \notin thr[t].failures
                     /\ _filter_reviewable_files(gh.files) # <<>>)
                    => (thr[t].pc = "generate" \/ thr[t].calls.generate = 1)

\* C14's case: a forced run on a draft pull request that the bot has reviewed
\* went through to the AI model and posted.
C14_Witness ==
    /\ InRun("web") /\ thr["web"].force_review
    /\ gh.draft /\ gh.reviews = <<BotLogin>>
    /\ thr["web"].calls.generate = 1
    /\ thr["web"].pc = "done" /\ thr["web"].created = 1

\* C15: a run that ended as skipped 'already reviewed' or as skipped draft has
\* fetched no files, has not called the AI model and has posted nothing.
C15_GateSkipStops ==
    \A t \in Threads :
        (/\ InRun(t)
         /\ thr[t].outcome \in {Skipped("PR already reviewed"),
                                Skipped("Skipped draft PR")})
        => /\ thr[t].calls.files = 0
           /\ thr[t].calls.generate = 0
           /\ thr[t].calls.post = 0
           /\ thr[t].created = 0

\* C15's case: a run was skipped as draft after the check and the details.
C15_Witness ==
    /\ thr["web"].pc = "done"
    /\ thr["web"].outcome = Skipped("Skipped draft PR")
    /\ thr["web"].order = <<"check", "details">>

\* C16: when the files were fetched and the filter keeps none of them, the
\* run ends as skipped 'No reviewable files found' and calls neither the AI
\* model nor post_pr_comment; and the AI model is only ever called with the
\* filter's result, which then is not empty.
C16_NoReviewableFilesSkips ==
    \A t \in Threads :
        InRun(t)
        => /\ (/\ thr[t].calls.files = 1
               /\ "files" \notin thr[t].failures
               /\ _filter_reviewable_files(gh.files) = <<>>)
              => /\ thr[t].pc = "done"
                 /\ thr[t].outcome = Skipped("No reviewable files found")
                 /\ thr[t].calls.generate = 0
                 /\ thr[t].calls.post = 0
           /\ (thr[t].calls.generate > 0 \/ thr[t].pc = "generate")
              => /\ thr[t].reviewable # <<>>
                 /\ thr[t].reviewable = _filter_reviewable_files(gh.files)

\* C16's case: a pull request whose files are a lockfile and a removed file
\* was skipped for having no reviewable file.
C16_Witness ==
    /\ thr["web"].pc = "done"
    /\ Len(gh.files) = 2
    /\ thr["web"].outcome = Skipped("No reviewable files found")

\* The extension of a path as the claim reads it: what follows the last dot of
\* the file's name, the directories aside; none for a name without a dot.
Extension(filename) ==
    LET base == SplitLast(filename, "/") IN
    IF Contains(".", base) THEN "." \o SplitLast(base, ".") ELSE ""

\* The files the claim says the filter keeps.
Kept(file_data) ==
    /\ file_data.status # "removed"
    /\ file_data.patch # ""
    /\ \A pattern \in skip_patterns : ~Contains(pattern, file_data.filename)
    /\ \/ Lower(Extension(file_data.filename)) \in reviewable_extensions
       \/ /\ Extension(file_data.filename) = ""
          /\ \E indicator \in script_indicators :
                 Contains(indicator, file_data.patch)

\* C17: _filter_reviewable_files returns the files of its input that are not
\* removed, have a patch, have no skip pattern in their path and have a
\* reviewed extension or no extension and a script-like patch -- those files,
\* unmodified, in the order and with the repetitions of the input; a removed
\* file, a file without patch and package-lock.json are never among them.
C17_FilterIsSubsequence ==
    filtercall.called
    => /\ filtercall.result = SelectSeq(filtercall.files_data, Kept)
       /\ \A i \in 1..Len(filtercall.result) :
              /\ filtercall.result[i].status # "removed"
              /\ filtercall.result[i].patch # ""
              /\ filtercall.result[i].filename # "package-lock.json"

\* C17's case: the filter kept a.py alone of a.py, package-lock.json and the
\* removed b.py.
C17_Witness ==
    /\ filtercall.called
    /\ filtercall.files_data = <<File("a.py", "modified", "x"),
                                 File("package-lock.json", "modified", "y"),
                                 File("b.py", "removed", "z")>>
    /\ filtercall.result = <<File("a.py", "modified", "x")>>

\* The metadata block for a model and a time.
MetadataBlock(model_used, timestamp) ==
    "\n---\n*This review was generated by AI using the " \o model_used
    \o " model on " \o timestamp \o "*\n"
    \o "*This is an automated code review. Please use your judgment "
    \o "and consider the suggestions carefully.*\n\n"

\* The model a run names in its metadata: the requested one, else the default.
ModelUsed(t) ==
    IF Truthy(thr[t].model_name) THEN thr[t].model_name ELSE DefaultModel

\* The comment the run of thread t has created (the thread runs alone).
Created(t) == gh.comments[Len(gh.comments)].body

C19_OutcomeMirrorsPost ==
    \A t \in Threads :
        InRun(t)
        => /\ thr[t].created <= thr[t].calls.post
           /\ thr[t].calls.post <= 1
           /\ thr[t].created = 1 <=> (thr[t].calls.post = 1
                                       /\ "post" \notin thr[t].failures)
           /\ thr[t].pc = "done"
              => /\ thr[t].created = 1
                    <=> thr[t].outcome
                          = Posted(thr[t].review_content,
                                   Len(_filter_reviewable_files(gh.files)))
                 /\ (thr[t].outcome.success /\ ~thr[t].outcome.skipped)
                    => thr[t].created = 1
                 /\ (thr[t].calls.post = 1 /\ thr[t].created = 0)
                    => thr[t].outcome = PostFailed

\* C19's case: the post step of a run failed upstream and the run returned the
\* failed outcome, no comment created.
C19_Witness ==
    /\ InRun("web") /\ thr["web"].pc = "done"
    /\ thr["web"].calls.post = 1 /\ thr["web"].created = 0
    /\ thr["web"].outcome = PostFailed

\* C20: an accepted pull_request webhook with action opened, for a pull
\* request that is no draft, has nothing of the bot on it and has one
\* reviewable file, and with every collaborator call succeeding, calls
\* review_pull_request once, creates one comment, which holds the metadata
\* block and the text of the AI model, and is answered 200 with the posted
\* outcome.
C20_OpenedEndToEnd ==
    \A t \in Threads :
        (/\ InWebhook(t) /\ thr[t].parsed
         /\ thr[t].event = "pull_request"
         /\ thr[t].body.kind = "object" /\ thr[t].body.action = "opened"
         /\ thr[t].body.repo = RepoName /\ thr[t].body.pr = PrNumber
         /\ ~gh.draft /\ gh.reviews = <<>> /\ thr[t].seen = 0
         /\ Len(_filter_reviewable_files(gh.files)) = 1
         /\ thr[t].pc = "done" /\ ~thr[t].faulted)
        => /\ thr[t].invoked = 1
           /\ thr[t].created = 1
           /\ Cardinality(PipelinePosts(gh.comments)) = 1
           /\ Contains(thr[t].review_content, Created(t))
           /\ \E timestamp \in Timestamps :
                  Contains(MetadataBlock(DefaultModel, timestamp), Created(t))
           /\ thr[t].status = 200
           /\ thr[t].outcome = Posted(thr[t].review_content, 1)

\* C20's case: an opened event was answered with the posted outcome.
C20_Witness ==
    /\ InWebhook("web") /\ thr["web"].pc = "done"
    /\ thr["web"].body.action = "opened"
    /\ ~gh.draft /\ thr["web"].seen = 0
    /\ thr["web"].status = 200
    /\ thr["web"].outcome.success /\ ~thr["web"].outcome.skipped
    /\ thr["web"].outcome.files_reviewed = 1

\* C21: in a run every collaborator operation (already-reviewed check,
\* details, files, generate, post) is called at most once, also when it
\* fails; a failure of the details, files, generate or post call ends the
\* run; and one webhook request, like one pull request of a poll, gets one
\* call of review_pull_request: only a new trigger repeats a failed run.
C21_NoRetryInsideRun ==
    \A t \in Threads :
        InRun(t)
        => /\ \A op \in DOMAIN ZeroCalls : thr[t].calls[op] <= 1
           /\ thr[t].failures \ {"check"} # {} => thr[t].pc = "done"
           /\ thr[t].invoked = 1

\* C21's case: the files fetch of a poll run failed, once, and a later
\* webhook delivery runs the pipeline anew.
C21_Witness ==
    /\ thr["poll"].pc = "done"
    /\ thr["poll"].failures = {"files"} /\ thr["poll"].calls.files = 1
    /\ InRun("web") /\ thr["web"].calls.files = 1

\* C22: a failed generate_review -- the provider's call failed, the requested
\* model has no registered client, or the client is not available -- ends the
\* run with the Failed outcome that carries the exception, with no call of
\* post_pr_comment and no comment created; a requested model without a
\* registered client always fails so.
C22_GeneratorFailureIsFailed ==
    \A t \in Threads :
        InRun(t)
        => /\ "generate" \in thr[t].failures
              => /\ thr[t].pc = "done"
                 /\ thr[t].outcome \in {Failed(ValueError), Failed(ProviderError)}
                 /\ thr[t].outcome.error \in {ValueError, ProviderError}
                 /\ thr[t].calls.post = 0
                 /\ thr[t].created = 0
           /\ (/\ thr[t].calls.generate = 1
               /\ Truthy(thr[t].model_name)
               /\ thr[t].model_name \notin Clients)
              => /\ thr[t].outcome = Failed(ValueError)
                 /\ thr[t].created = 0

\* C22's case: a review was asked of a model the manager has no client for.
C22_Witness ==
    /\ InRun("web") /\ thr["web"].pc = "done"
    /\ thr["web"].model_name = "gpt-4"
    /\ thr["web"].calls.generate = 1
    /\ thr["web"].outcome = Failed(ValueError)

\* C23 (as claimed): a run in which a GitHub call failed upstream -- the
\* already-reviewed check, the details, the files or the post -- ends with a
\* failed outcome; after a failed already-reviewed check the run neither
\* calls the AI model nor posts.
C23_GithubFailureIsFailed ==
    \A t \in Threads :
        (InRun(t) /\ thr[t].failures \cap {"check", "details", "files", "post"} # {})
        => /\ thr[t].pc = "done"
           /\ ~thr[t].outcome.success
           /\ "check" \in thr[t].failures
              => /\ thr[t].calls.generate = 0
                 /\ thr[t].calls.post = 0

\* The `running` of the reported status.
Running == get_polling_status.running

\* The threads that are in _run_polling.
AliveWorkers == {w \in WorkerIds : Alive(w)}

\* start_polling was called at most once so far.
StartedOnce == \A w \in WorkerIds \ {1} : workers[w].pc = "unborn"

\* C24 (as claimed): whatever start and stop calls were made, at most one
\* polling thread is alive, at most one job is scheduled, and no pass of the
\* scheduler over its due jobs calls _poll_repositories more than once.
C24_OneWorkerOneJob ==
    /\ Cardinality(AliveWorkers) <= 1
    /\ jobs <= 1
    /\ \A w \in WorkerIds : workers[w].fired <= 1

\* C25: a start_polling made while polling is disabled or monitored_repos is
\* empty changes nothing of the scheduler -- no thread, no job, the stop flag
\* and the reported status as they were -- so on a scheduler without thread
\* and job the status stays at running = false with no next run.
C25_StartIsNoOp ==
    [][(start_polling /\ (~enable_polling \/ monitored_repos = <<>>))
       => /\ UNCHANGED <<jobs, stop_polling, polling_thread, workers,
                         monitored_repos>>
          /\ get_polling_status' = get_polling_status
          /\ (polling_thread = NoThread /\ jobs = 0)
             => /\ ~get_polling_status'.running
                /\ ~get_polling_status'.next_run]_vars

\* C25's case: start_polling returned early for an empty monitored_repos,
\* with polling enabled, on a scheduler that has no thread and no job.
C25_Witness ==
    /\ ctl.last = "start_noop"
    /\ enable_polling /\ monitored_repos = <<>>
    /\ polling_thread = NoThread /\ jobs = 0
    /\ ~Running /\ ~get_polling_status.next_run

\* C26 (as claimed): after the one start_polling of a scheduler, once
\* stop_polling_process has returned the status reports running = false,
\* whatever the thread was doing.
C26_StopAlwaysStops ==
    (ctl.pc = "idle" /\ ctl.last = "stop" /\ StartedOnce) => ~Running

\* C26 (amended): a scheduler that never started reports running = false; a
\* start_polling that took effect makes it report running = true until stop
\* is called; and when stop_polling_process has returned the status reports
\* running = false unless its join timed out, which it does only on a thread
\* that is inside the poll of a repository.
C26_Lifecycle ==
    /\ polling_thread = NoThread => ~Running
    /\ ctl.last = "start" => Running
    /\ (ctl.pc = "idle" /\ ctl.last = "stop" /\ ~ctl.timed_out) => ~Running

\* C26's case: the scheduler was started once, its thread ran a tick, and
\* stop_polling_process has returned with the thread ended.
C26_Witness ==
    /\ ctl.pc = "idle" /\ ctl.last = "stop" /\ ~ctl.timed_out
    /\ StartedOnce /\ polling_thread = 1
    /\ workers[1].pc = "dead" /\ ticks > 0
    /\ ~Running

\* C27 (as claimed): from the return of stop_polling_process to the next
\* start_polling no job is scheduled, no call of _poll_repositories begins,
\* and no thread begins the poll of a repository.
C27_StoppedStaysQuiet ==
    [][(ctl.pc = "idle" /\ ctl.last = "stop" /\ ctl'.last = "stop")
       => /\ jobs = 0 /\ jobs' = 0
          /\ ticks' = ticks
          /\ \A w \in WorkerIds :
                workers'[w].pc = "poll" => workers[w].pc = "poll"]_vars

\* C28 (as claimed): a call of _poll_repositories that ran through its list
\* has polled exactly the repositories that monitored_repos held when the
\* call began, each once and in order, whatever add_repository and
\* remove_repository calls were made meanwhile.
C28_TickPollsSnapshot ==
    \A w \in WorkerIds :
        workers[w].ended = "exhausted"
        => workers[w].polled = workers[w].snapshot

\* C29: a call of _poll_repositories ends only by running through the list
\* or by seeing the stop flag, never by the failure of a repository's poll:
\* with monitored_repos unchanged during the call, a call that ran through
\* has polled every repository of the list, those after a failed one
\* included.
C29_RepoFailureDoesNotAbort ==
    \A w \in WorkerIds :
        /\ workers[w].ended \in {None, "exhausted", "stopped"}
        /\ (workers[w].ended = "exhausted" /\ ~workers[w].edited)
           => workers[w].polled = workers[w].snapshot
        /\ (workers[w].failed > 0 /\ workers[w].ended = None)
           => workers[w].pc \in {"tick", "poll"}

\* C29's case: the poll of the first of two repositories failed or raised,
\* and the call went on to poll the second.
C29_Witness ==
    \E w \in WorkerIds :
        /\ workers[w].failed = 1
        /\ workers[w].ended = "exhausted" /\ ~workers[w].edited
        /\ workers[w].polled = <<Repos[1], Repos[2]>>

\* C30: a thread of _run_polling has ended only when it read the stop flag
\* set; an exception of schedule.run_pending() leaves it in its loop.
C30_WorkerEndsOnlyOnStop ==
    \A w \in WorkerIds :
        /\ workers[w].pc = "dead" <=> workers[w].exit # None
        /\ workers[w].pc = "dead" => workers[w].exit = "stop_polling"
        /\ (workers[w].caught /\ workers[w].exit = None) => Alive(w)

\* C30's case: a thread caught an exception of run_pending and is polling a
\* repository in a later tick.
C30_Witness ==
    \E w \in WorkerIds :
        /\ workers[w].caught
        /\ workers[w].pc = "poll"

\* How many times x is in the list s.
Count(s, x) == Cardinality({i \in 1..Len(s) : s[i] = x})

\* C31 (as claimed): after add_repository(r) the list holds r exactly once,
\* after remove_repository(r) it does not hold r, and a call made on a list
\* that is already so leaves the list as it is.
C31_ReposBehaveAsSet ==
    [][\A r \in Range(Repos) :
        /\ add_repository(r)
           => /\ Count(monitored_repos', r) = 1
              /\ Count(monitored_repos, r) = 1 => UNCHANGED monitored_repos
        /\ remove_repository(r)
           => /\ Count(monitored_repos', r) = 0
              /\ Count(monitored_repos, r) = 0 => UNCHANGED monitored_repos]_vars

\* C32 (as claimed): the status reports running = true exactly when some
\* thread of _run_polling is alive, a next run exactly when a job is
\* scheduled, and the list the next call of _poll_repositories iterates.
C32_StatusIsTruthful ==
    /\ Running <=> AliveWorkers # {}
    /\ get_polling_status.next_run <=> jobs > 0
    /\ get_polling_status.monitored_repos = monitored_repos

\* C37 (as claimed): a call of _poll_repositories that ran through its list
\* has polled every repository that was in monitored_repos when the call
\* began and was not removed during it, whatever other repositories were
\* added or removed meanwhile.
C37_EveryTickReachesRepo ==
    \A w \in WorkerIds :
        workers[w].ended = "exhausted"
        => \A r \in Range(workers[w].snapshot) \ workers[w].dropped :
              r \in Range(workers[w].polled)

\* C36: a POST /config request changes nothing of the polling manager -- its
\* list, its threads, its jobs, its stop flag -- and nothing of the status but
\* `enabled`; no thread polls a repository that is not of the manager's list;
\* and Config.ENABLE_POLLING is read by start_polling alone: a thread that
\* runs stays alive when polling is switched off.
C36_ConfigLeavesScheduler ==
    [][(\E data \in UpdateBodies : update_config(data))
       => /\ UNCHANGED <<monitored_repos, stop_polling, polling_thread, jobs,
                         workers>>
          /\ get_polling_status'.running = get_polling_status.running
          /\ get_polling_status'.monitored_repos = get_polling_status.monitored_repos
          /\ get_polling_status'.next_run = get_polling_status.next_run
          /\ AliveWorkers' = AliveWorkers
          /\ \A w \in WorkerIds :
                workers'[w].pc = "poll" => workers'[w].repo \in Range(monitored_repos')]_vars

\* C36's case: POST /config gave Config another list of repositories and
\* switched polling off while a thread polls a repository of the manager's
\* list that is not in Config's.
C36_Witness ==
    /\ updates > 0 /\ config.status = 200
    /\ ~config.same_list /\ ConfigRepos # monitored_repos
    /\ ~enable_polling
    /\ Running
    /\ \E w \in WorkerIds :
          /\ workers[w].pc = "poll"
          /\ workers[w].repo \in Range(monitored_repos) \ Range(ConfigRepos)

\* C34: validate_config reports valid exactly when it reports no error;
\* without a GitHub token the errors hold "GITHUB_TOKEN is required" and the
\* configuration is not valid; with a token, the default model gemini and a
\* Gemini API key it is valid with no error.
C34_ValidateConfig ==
    valcall.called
    => LET cls == valcall.settings
           r == valcall.result
       IN  /\ r.valid <=> r.errors = <<>>
           /\ ~Truthy(cls.GITHUB_TOKEN)
              => /\ "GITHUB_TOKEN is required" \in Range(r.errors)
                 /\ ~r.valid
           /\ (/\ Truthy(cls.GITHUB_TOKEN)
               /\ cls.DEFAULT_AI_MODEL = "gemini"
               /\ Truthy(cls.GEMINI_API_KEY))
              => r.valid /\ r.errors = <<>>

\* C34's case: validate_config was called with no token and no API key, as in
\* test_config_validation_missing_github_token.
C34_Witness ==
    /\ valcall.called
    /\ valcall.settings.GITHUB_TOKEN = None
    /\ valcall.settings.GEMINI_API_KEY = None
    /\ valcall.settings.PERPLEXITY_API_KEY = None
    /\ ~valcall.result.valid
    /\ valcall.result.errors[1] = "GITHUB_TOKEN is required"

\* The three shapes of an outcome.
IsSkipped(o) ==
    /\ o.success /\ o.skipped
    /\ o.review_content = None /\ o.files_reviewed = 0 /\ o.error = None
IsPosted(o) ==
    /\ o.success /\ ~o.skipped
    /\ o.review_content # None /\ o.files_reviewed >= 1 /\ o.error = None
IsFailed(o) ==
    /\ ~o.success /\ ~o.skipped
    /\ o.review_content = None /\ o.files_reviewed = 0 /\ o.error # None

\* How _poll_repositories reads a result when it logs it.
LoggedAs(o) ==
    IF o.success THEN (IF o.skipped THEN "skipped" ELSE "reviewed") ELSE "failed"

\* The outcomes review_pull_request has returned to a thread: to the webhook
\* handler, and to review_recent_prs for each pull request of its list.
Returned(t) ==
    (IF InRun(t) /\ thr[t].pc = "done" THEN {thr[t].outcome} ELSE {})
    \cup {thr[t].results[i].result : i \in 1..Len(thr[t].results)}

\* C35: every outcome review_pull_request returns, to the webhook handler or
\* to the poller, has exactly one of the shapes Skipped, Posted (with a review
\* text and at least one file reviewed) and Failed (with an error), and the
\* poller's reading of `success` and `skipped` tells which.
C35_OutcomeShapes ==
    \A t \in Threads : \A o \in Returned(t) :
        /\ Cardinality({s \in {"skipped", "reviewed", "failed"} :
                \/ s = "skipped" /\ IsSkipped(o)
                \/ s = "reviewed" /\ IsPosted(o)
                \/ s = "failed" /\ IsFailed(o)}) = 1
        /\ LoggedAs(o) = "skipped" <=> IsSkipped(o)
        /\ LoggedAs(o) = "reviewed" <=> IsPosted(o)
        /\ LoggedAs(o) = "failed" <=> IsFailed(o)

\* C35's case: the poller got a posted outcome for the pull request of its
\* list while the webhook handler got a failed one.
C35_Witness ==
    /\ Len(thr["poll"].results) = 1
    /\ IsPosted(thr["poll"].results[1].result)
    /\ InRun("web") /\ thr["web"].pc = "done"
    /\ IsFailed(thr["web"].outcome)

\* The first n elements of a list (all of it when it is shorter).
FirstN(s, n) == SubSeq(s, 1, IF Len(s) < n THEN Len(s) ELSE n)

\* The numbers of the pull requests review_recent_prs has results for.
Reviewed(t) == [i \in 1..Len(thr[t].results) |-> thr[t].results[i].pr_number]

\* C33: the thread of a tick is in the poll of one repository at a time, the
\* repositories it has polled and the one in hand being the list's in order;
\* under it review_recent_prs calls review_pull_request for the first
\* PollLimit pull requests of the listing and no other, in the listing's
\* order, each once, each call begun when the one before has returned.
C33_SequentialBoundedPoll ==
    LET c == thr["poll"]
        w == workers[1]
        cut == FirstN(gh.open, PollLimit)
    IN  /\ c.pc # "idle"
           => /\ w.pc = "poll" /\ c.repo_name = w.repo
              /\ w.repo = monitored_repos[Len(w.polled) + 1]
        /\ IsPrefix(w.polled, monitored_repos)
        /\ Len(c.results) <= PollLimit
        /\ (c.pc # "idle" /\ c.invoked > 0)
           => /\ Reviewed("poll") \o c.queue = cut
              /\ c.invoked = Len(c.results) + (IF c.pc = "done" THEN 0 ELSE 1)
              /\ c.pc # "done" => c.pr_number = Head(c.queue)
        /\ (c.pc = "done" /\ c.invoked > 0) => Reviewed("poll") = cut

\* C33's case: on the second repository of the list, with four open pull
\* requests listed, review_recent_prs has reviewed the first three.
C33_Witness ==
    /\ workers[1].polled = <<Repos[1]>> /\ workers[1].repo = Repos[2]
    /\ Len(gh.open) = 4
    /\ thr["poll"].pc = "done"
    /\ Reviewed("poll") = <<PrNumber, PrNumber + 1, PrNumber + 2>>

\* C38 (as claimed): when a push_edits request with no accept_edit beside it
\* has answered, after a 200 pending_edits is empty and the request has
\* written every item it found, each once; after another answer
\* pending_edits is as the request found it; and a request that found
\* pending_edits empty has answered 400 and written nothing.
C38_PushAllOrNothing ==
    push.pc = "done"
    => /\ (push.status = 200 /\ ~push.raced)
          => /\ pending_edits = <<>>
             /\ push.wrote = push.took
       /\ (push.status # 200 /\ ~push.raced) => pending_edits = push.took
       /\ push.took = <<>> => (push.status = 400 /\ push.wrote = <<>>)

\* The last content staged for a path, None when none was.
LatestStaged(p) ==
    LET is == {i \in 1..Len(staged) : staged[i].status = 200 /\ staged[i].path = p}
    IN  IF is = {} THEN None
        ELSE staged[CHOOSE i \in is : \A j \in is : j <= i].new_content

\* C39 (as claimed): the last content staged for a path is in pending_edits
\* or has been written to the repository.
C39_NoStagedEditLost ==
    \A p \in Paths :
        LatestStaged(p) # None
        => \/ \E i \in 1..Len(pending_edits) :
                 pending_edits[i] = [path |-> p, new_content |-> LatestStaged(p)]
           \/ \E i \in 1..Len(repo_files) :
                 repo_files[i] = [path |-> p, new_content |-> LatestStaged(p)]

====
